---- MODULE Spec2Model ----
(***************************************************************************)
(* A model of the storage engine of ctrl-py: the chunked blob store        *)
(* (ctrlpy/dao/datastore.py) and the document store with its secondary     *)
(* index and query language (ctrlpy/dao/document.py, ctrlpy/dao/object.py).*)
(***************************************************************************)
EXTENDS Integers, Sequences, FiniteSets, TLC

(***************************************************************************)
(* Bounds.  CHUNK_SIZE is datastore.py:9 (65536) scaled down so that chunk *)
(* boundaries are crossed by short payloads; no operation of the blob      *)
(* store depends on its value other than through / and %.                  *)
(***************************************************************************)
CHUNK_SIZE == 2
MaxSize == 5
MaxLen == 3
MaxSteps == 3

\* docs    the datastore collection: object id -> stored value
\* nextId  the next fresh object id (get_uuid_str)
\* file    the attributes of the open File instance
\* last    the most recent call: its name, argument, the world it started in,
\*         what it returned and raised, and the call before it
\* steps   the number of calls made so far
\* tables  the tables of the document store
\* handles the Object instances that are open: [coluuid, objuuid]
\* dlast   the most recent call on the document store
\* cache   the key space of the cache service: key -> stored value
\* callers where each caller of lock()/unlock() is, and on which key
VARIABLES docs, nextId, file, last, steps, tables, handles, dlast, cache, callers

vars == <<docs, nextId, file, last, steps, tables, handles, dlast, cache, callers>>

\* The part of the state only the specification of the lock uses.
NoLock == cache = <<>> /\ callers = <<>>

Min(a, b) == IF a < b THEN a ELSE b
Max(a, b) == IF a > b THEN a ELSE b

(***************************************************************************)
(* The datastore collection: object id -> stored value.  Only the two      *)
(* document types of the blob store live in it.                            *)
(***************************************************************************)
ZeroData == [i \in 1..CHUNK_SIZE |-> 0]
ChunkDoc(data) == [type |-> "chunk", data |-> data]
SequenceDoc(chunks, size) == [type |-> "sequence", chunks |-> chunks, size |-> size]
\* Object.load on an id with no row: create_object stores only the two ids.
EmptyDoc == [type |-> "none"]

Put(d, id, v) == [x \in (DOMAIN d) \cup {id} |-> IF x = id THEN v ELSE d[x]]
\* Object.destroy: delete from TBL_OBJECTS where OBJUUID = id.
Destroy(d, id) == [x \in (DOMAIN d) \ {id} |-> d[x]]
\* Object.set: update TBL_OBJECTS ... where OBJUUID = id; without a row nothing is stored.
SetObject(d, id, v) == IF id \in DOMAIN d THEN [d EXCEPT ![id] = v] ELSE d
\* Object.load: get-or-create.
LoadStore(d, id) == IF id \in DOMAIN d THEN d ELSE Put(d, id, EmptyDoc)

(***************************************************************************)
(* A world is the store together with one open handle:                     *)
(*   [docs, nextId, f, err], f the File instance's attributes.             *)
(* err is "none" or the exception the call left with.                      *)
(***************************************************************************)
World(d, n, f) == [docs |-> d, nextId |-> n, f |-> f, err |-> "none"]

Raise(W, e) == [W EXCEPT !.err = e]

\* new_chunk: a fresh object holding bytearray(CHUNK_SIZE), committed.
new_chunk(W) ==
  [W EXCEPT !.docs = Put(W.docs, W.nextId, ChunkDoc(ZeroData)),
            !.nextId = W.nextId + 1]

\* The in-memory Object of a chunk: its id and the value loaded from the store.
LoadChunk(d, id) ==
  [objuuid |-> id,
   data |-> IF id \in DOMAIN d /\ d[id].type = "chunk" THEN d[id].data ELSE <<>>]

\* File.__init__ for a sequuid that is no sequence yet (here: a fresh id).
FileNew(d, n) ==
  LET sid == n
      cid == n + 1
      d1 == Put(d, sid, SequenceDoc(<<>>, 0))
      d2 == Put(d1, cid, ChunkDoc(ZeroData))
      d3 == SetObject(d2, sid, SequenceDoc(<<cid>>, 0))
  IN World(d3, n + 2,
           [position |-> 0, chunk_position |-> 0,
            chunk |-> [objuuid |-> cid, data |-> ZeroData],
            chunk_index |-> 0, chunk_changed |-> FALSE,
            end_of_sequence |-> FALSE, following_write |-> FALSE,
            sequence |-> [objuuid |-> sid, chunks |-> <<cid>>, size |-> 0]])

\* File.__init__ for a sequuid found by find_objuuids(type="sequence").
FileOpen(d, n, sid) ==
  IF sid \in DOMAIN d /\ d[sid].type = "sequence"
  THEN LET d1 == LoadStore(d, d[sid].chunks[1])
       IN World(d1, n,
                [position |-> 0, chunk_position |-> 0,
                 chunk |-> LoadChunk(d1, d[sid].chunks[1]),
                 chunk_index |-> 0, chunk_changed |-> FALSE,
                 end_of_sequence |-> FALSE, following_write |-> FALSE,
                 sequence |-> [objuuid |-> sid, chunks |-> d[sid].chunks,
                               size |-> d[sid].size]])
  ELSE FileNew(d, n)

\* File.size and File.tell
size(W) == W.f.sequence.size
tell(W) == W.f.position

\* Mutant: close that stores the sequence and forgets the current chunk.
close_sequence_only(W) ==
  [W EXCEPT !.docs = SetObject(W.docs, W.f.sequence.objuuid,
                               SequenceDoc(W.f.sequence.chunks, W.f.sequence.size))]

\* Mutant: close with a check: the sequence is stored only when the stored
\* chunk list is still a prefix of the one the instance holds.
close_checked(W) ==
  LET f == W.f
      stored == IF f.sequence.objuuid \in DOMAIN W.docs
                   /\ W.docs[f.sequence.objuuid].type = "sequence"
                THEN W.docs[f.sequence.objuuid].chunks ELSE <<>>
      d1 == IF Len(stored) <= Len(f.sequence.chunks)
               /\ SubSeq(f.sequence.chunks, 1, Len(stored)) = stored
            THEN SetObject(W.docs, f.sequence.objuuid,
                           SequenceDoc(f.sequence.chunks, f.sequence.size))
            ELSE W.docs
  IN [W EXCEPT !.docs = SetObject(d1, f.chunk.objuuid, ChunkDoc(f.chunk.data))]

\* File.close: sequence.set() then chunk.set().
close(W) ==
  LET f == W.f
      d1 == SetObject(W.docs, f.sequence.objuuid,
                      SequenceDoc(f.sequence.chunks, f.sequence.size))
      d2 == SetObject(d1, f.chunk.objuuid, ChunkDoc(f.chunk.data))
  IN [W EXCEPT !.docs = d2]

\* Mutant: seek that accepts the position one past the last byte.
seek_accepts_size(W, seek_position) ==
  IF seek_position < 0 \/ seek_position > W.f.sequence.size
  THEN Raise(W, "IndexError")
  ELSE [W EXCEPT !.f.chunk_position = seek_position % CHUNK_SIZE,
                 !.f.position = seek_position,
                 !.f.following_write = FALSE,
                 !.f.end_of_sequence = FALSE]

\* Mutant: seek that switches chunks without storing a changed chunk first.
seek_no_flush(W, seek_position) ==
  LET f == W.f IN
  IF seek_position < 0 \/ seek_position >= f.sequence.size
  THEN Raise(W, "IndexError")
  ELSE LET i == seek_position \div CHUNK_SIZE IN
       IF f.chunk_index # i /\ i + 1 > Len(f.sequence.chunks)
       THEN Raise(W, "IndexError")
       ELSE [W EXCEPT !.docs = IF f.chunk_index # i
                                THEN LoadStore(W.docs, f.sequence.chunks[i + 1])
                                ELSE W.docs,
                      !.f.chunk = IF f.chunk_index # i
                                  THEN LoadChunk(LoadStore(W.docs, f.sequence.chunks[i + 1]),
                                                 f.sequence.chunks[i + 1])
                                  ELSE f.chunk,
                      !.f.chunk_index = i,
                      !.f.chunk_changed = IF f.chunk_index # i THEN FALSE ELSE @,
                      !.f.chunk_position = seek_position % CHUNK_SIZE,
                      !.f.position = seek_position,
                      !.f.following_write = FALSE,
                      !.f.end_of_sequence = FALSE]

\* Mutant: seek that clears the two flags before it checks the range.
seek_clears_first(W, seek_position) ==
  LET f == W.f
      W0 == [W EXCEPT !.f.following_write = FALSE, !.f.end_of_sequence = FALSE]
  IN
  IF seek_position < 0 \/ seek_position >= f.sequence.size
  THEN Raise(W0, "IndexError")
  ELSE LET i == seek_position \div CHUNK_SIZE
           d1 == IF f.chunk_index # i /\ f.chunk_changed
                 THEN SetObject(W.docs, f.chunk.objuuid, ChunkDoc(f.chunk.data))
                 ELSE W.docs
       IN IF f.chunk_index # i /\ i + 1 > Len(f.sequence.chunks)
          THEN Raise([W0 EXCEPT !.docs = d1], "IndexError")
          ELSE LET d2 == IF f.chunk_index # i
                         THEN LoadStore(d1, f.sequence.chunks[i + 1]) ELSE d1
               IN [W0 EXCEPT !.docs = d2,
                             !.f.chunk = IF f.chunk_index # i
                                         THEN LoadChunk(d2, f.sequence.chunks[i + 1])
                                         ELSE f.chunk,
                             !.f.chunk_index = i,
                             !.f.chunk_changed = IF f.chunk_index # i THEN FALSE ELSE @,
                             !.f.chunk_position = seek_position % CHUNK_SIZE,
                             !.f.position = seek_position]

\* File.seek
seek(W, seek_position) ==
  LET f == W.f IN
  IF seek_position < 0 \/ seek_position >= f.sequence.size
  THEN Raise(W, "IndexError")
  ELSE LET i == seek_position \div CHUNK_SIZE IN
       IF f.chunk_index # i
       THEN IF i + 1 > Len(f.sequence.chunks)
            THEN Raise(IF f.chunk_changed
                       THEN [W EXCEPT !.docs = SetObject(W.docs, f.chunk.objuuid,
                                                         ChunkDoc(f.chunk.data))]
                       ELSE W, "IndexError")
            ELSE LET d1 == IF f.chunk_changed
                           THEN SetObject(W.docs, f.chunk.objuuid, ChunkDoc(f.chunk.data))
                           ELSE W.docs
                     d2 == LoadStore(d1, f.sequence.chunks[i + 1])
                 IN [W EXCEPT !.docs = d2,
                              !.f.chunk = LoadChunk(d2, f.sequence.chunks[i + 1]),
                              !.f.chunk_index = i,
                              !.f.chunk_changed = FALSE,
                              !.f.chunk_position = seek_position % CHUNK_SIZE,
                              !.f.position = seek_position,
                              !.f.following_write = FALSE,
                              !.f.end_of_sequence = FALSE]
       ELSE [W EXCEPT !.f.chunk_position = seek_position % CHUNK_SIZE,
                      !.f.position = seek_position,
                      !.f.following_write = FALSE,
                      !.f.end_of_sequence = FALSE]

\* The body of both loops of File.read: k iterations left, buffer so far.
\* Returns [w, buffer].
RECURSIVE ReadLoop(_, _, _)
ReadLoop(W, k, buffer) ==
  IF k = 0 THEN [w |-> W, buffer |-> buffer]
  ELSE IF W.f.chunk_position + 1 > Len(W.f.chunk.data)
       THEN [w |-> Raise(W, "KeyError"), buffer |-> buffer]
       ELSE LET b == Append(buffer, W.f.chunk.data[W.f.chunk_position + 1])
                W1 == seek(W, 1 + W.f.position)
            IN IF W1.err = "IndexError"
               THEN [w |-> [W1 EXCEPT !.err = "none", !.f.end_of_sequence = TRUE],
                     buffer |-> b]
               ELSE ReadLoop(W1, k - 1, b)

\* Mutant: read that returns what it has when seek raises but never sets the
\* at-end flag.
RECURSIVE ReadLoop_no_flag(_, _, _)
ReadLoop_no_flag(W, k, buffer) ==
  IF k = 0 THEN [w |-> W, buffer |-> buffer]
  ELSE IF W.f.chunk_position + 1 > Len(W.f.chunk.data)
       THEN [w |-> Raise(W, "KeyError"), buffer |-> buffer]
       ELSE LET b == Append(buffer, W.f.chunk.data[W.f.chunk_position + 1])
                W1 == seek(W, 1 + W.f.position)
            IN IF W1.err = "IndexError"
               THEN [w |-> [W1 EXCEPT !.err = "none"], buffer |-> b]
               ELSE ReadLoop_no_flag(W1, k - 1, b)

read_never_ends(W, num_bytes) ==
  IF W.f.end_of_sequence THEN [w |-> W, buffer |-> <<>>]
  ELSE ReadLoop_no_flag(W, Max(0, num_bytes), <<>>)

\* Mutant: read that does not look at the at-end flag.
read_ignoring_end(W, num_bytes) == ReadLoop(W, Max(0, num_bytes), <<>>)

\* File.read(num_bytes)
read(W, num_bytes) ==
  IF W.f.end_of_sequence THEN [w |-> W, buffer |-> <<>>]
  ELSE ReadLoop(W, Max(0, num_bytes), <<>>)

\* File.read() with num_bytes omitted
read_all(W) ==
  IF W.f.end_of_sequence THEN [w |-> W, buffer |-> <<>>]
  ELSE ReadLoop(W, Max(0, W.f.sequence.size - W.f.position), <<>>)

\* The growing loop of File.resize.
RECURSIVE GrowChunks(_, _)
GrowChunks(W, num_chunks) ==
  IF Len(W.f.sequence.chunks) >= num_chunks THEN W
  ELSE LET W1 == new_chunk(W)
       IN GrowChunks([W1 EXCEPT !.f.sequence.chunks = Append(@, W.nextId)], num_chunks)

\* The shrinking loop of File.resize: destroy and pop the trailing chunks.
RECURSIVE ShrinkChunks(_, _)
ShrinkChunks(W, num_chunks) ==
  LET cs == W.f.sequence.chunks IN
  IF Len(cs) <= num_chunks THEN W
  ELSE ShrinkChunks([W EXCEPT !.docs = Destroy(W.docs, cs[Len(cs)]),
                              !.f.sequence.chunks = SubSeq(cs, 1, Len(cs) - 1)],
                    num_chunks)

\* Mutant: resize that keeps ceil(size / capacity) chunks, at least one.
resize_ceil(W, num_bytes) ==
  LET W1 == [W EXCEPT !.f.sequence.size = num_bytes]
      num_chunks == Max(1, (num_bytes + CHUNK_SIZE - 1) \div CHUNK_SIZE)
  IN IF Len(W.f.sequence.chunks) < num_chunks
     THEN GrowChunks(W1, num_chunks)
     ELSE ShrinkChunks(W1, num_chunks)

\* Mutant: resize that appends a chunk when the chunk count is already right.
resize_regrow(W, num_bytes) ==
  LET W1 == [W EXCEPT !.f.sequence.size = num_bytes]
      num_chunks == (num_bytes \div CHUNK_SIZE) + 1
  IN IF Len(W.f.sequence.chunks) <= num_chunks
     THEN GrowChunks(W1, Max(num_chunks, Len(W.f.sequence.chunks) + 1))
     ELSE ShrinkChunks(W1, num_chunks)

\* Mutant: resize that keeps floor(size / capacity) chunks, at least one.
resize_floor(W, num_bytes) ==
  LET W1 == [W EXCEPT !.f.sequence.size = num_bytes]
      num_chunks == Max(1, num_bytes \div CHUNK_SIZE)
  IN IF Len(W.f.sequence.chunks) < num_chunks
     THEN GrowChunks(W1, num_chunks)
     ELSE ShrinkChunks(W1, num_chunks)

\* File.resize
resize(W, num_bytes) ==
  LET W1 == [W EXCEPT !.f.sequence.size = num_bytes]
      num_chunks == (num_bytes \div CHUNK_SIZE) + 1
  IN IF Len(W.f.sequence.chunks) < num_chunks
     THEN GrowChunks(W1, num_chunks)
     ELSE ShrinkChunks(W1, num_chunks)

\* File.truncate() with num_bytes omitted; truncate(n) is resize(n).
truncate(W) == resize(W, W.f.position + 1)

\* The copying loop of File.write, i the 1-based index into buffer.
RECURSIVE WriteLoop(_, _, _)
WriteLoop(W, buffer, i) ==
  IF i > Len(buffer) THEN W
  ELSE IF W.f.chunk_position + 1 > Len(W.f.chunk.data)
       THEN Raise(W, "KeyError")
       ELSE LET W1 == [W EXCEPT !.f.chunk.data[W.f.chunk_position + 1] = buffer[i],
                                !.f.chunk_changed = TRUE]
                W2 == IF i < Len(buffer) THEN seek(W1, 1 + W1.f.position) ELSE W1
            IN IF W2.err # "none" THEN W2 ELSE WriteLoop(W2, buffer, i + 1)

\* File.write
write(W, buffer) ==
  LET f == W.f
      n == Len(buffer)
      W1 == IF f.following_write /\ n > 0 /\ f.sequence.size < f.position + n + 1
            THEN seek(resize(W, f.position + n + 1), 1 + f.position)
            ELSE IF ~f.following_write /\ n > 0 /\ f.sequence.size < f.position + n
                 THEN resize(W, f.position + n)
                 ELSE W
      W2 == IF W1.err # "none" THEN W1 ELSE WriteLoop(W1, buffer, 1)
  IN IF W2.err # "none" THEN W2 ELSE [W2 EXCEPT !.f.following_write = TRUE]

(***************************************************************************)
(* The blob handle as a state machine.                                     *)
(***************************************************************************)
Cur == World(docs, nextId, file)

\* Bytes are never inspected by the blob store (datastore.py:265-270), so the
\* payload of the k-th call is tagged with k: every written byte is distinct.
Payload(k, n) == [i \in 1..n |-> 10 * k + i]

\* What the store holds of the handle's sequence once the handle is closed:
\* the byte at each position below size (-1 where the chunk has no data).
Content(W) ==
  LET d == close(W).docs
      sid == W.f.sequence.objuuid
      s == d[sid]
  IN [q \in 1..s.size |->
        LET ci == ((q - 1) \div CHUNK_SIZE) + 1 IN
        IF ci <= Len(s.chunks) /\ s.chunks[ci] \in DOMAIN d /\ d[s.chunks[ci]].type = "chunk"
        THEN d[s.chunks[ci]].data[((q - 1) % CHUNK_SIZE) + 1]
        ELSE -1]

\* A handle opened on a blob of s bytes that an earlier handle wrote and closed
\* (s = 0: a blob just created).
BlobOf(s) ==
  LET W0 == FileNew(<<>>, 1)
      W1 == close(write(W0, Payload(0, s)))
  IN IF s = 0 THEN W0 ELSE FileOpen(W1.docs, W1.nextId, W0.f.sequence.objuuid)

NoCall == [op |-> "init", arg |-> 0, pre |-> 0, ret |-> <<>>, err |-> "none",
           prevop |-> "init", prevarg |-> 0]

Step(W, op, arg, ret) ==
  /\ docs' = W.docs
  /\ nextId' = W.nextId
  /\ file' = W.f
  /\ last' = [op |-> op, arg |-> arg, pre |-> Cur, ret |-> ret, err |-> W.err,
              prevop |-> last.op, prevarg |-> last.arg]
  /\ steps' = steps + 1
  /\ UNCHANGED <<tables, handles, dlast, cache, callers>>

\* The part of the state a specification of the blob store leaves alone.
NoStore == tables = <<>> /\ handles = {} /\ dlast = <<>> /\ NoLock

FileInit ==
  /\ NoStore
  /\ \E s \in 0..MaxSize :
       LET W == BlobOf(s) IN docs = W.docs /\ nextId = W.nextId /\ file = W.f
  /\ last = NoCall
  /\ steps = 0

DoSeek ==
  /\ steps < MaxSteps
  /\ \E p \in -1..MaxSize : Step(seek(Cur, p), "seek", p, <<>>)

DoRead ==
  /\ steps < MaxSteps
  /\ \E n \in 0..MaxLen :
       LET r == read(Cur, n) IN Step(r.w, "read", n, r.buffer)

DoReadAll ==
  /\ steps < MaxSteps
  /\ LET r == read_all(Cur) IN Step(r.w, "read_all", 0, r.buffer)

DoWrite ==
  /\ steps < MaxSteps
  /\ \E n \in 0..MaxLen :
       /\ file.position + n + 1 <= MaxSize
       /\ Step(write(Cur, Payload(steps + 1, n)), "write", Payload(steps + 1, n), <<>>)

DoResize ==
  /\ steps < MaxSteps
  /\ \E n \in 0..MaxSize : Step(resize(Cur, n), "resize", n, <<>>)

DoTruncate ==
  /\ steps < MaxSteps
  /\ file.position + 1 <= MaxSize
  /\ Step(truncate(Cur), "truncate", file.position + 1, <<>>)

DoClose ==
  /\ steps < MaxSteps
  /\ Step(close(Cur), "close", 0, <<>>)

FileNext == DoSeek \/ DoRead \/ DoReadAll \/ DoWrite \/ DoResize \/ DoTruncate \/ DoClose

SpecFile == FileInit /\ [][FileNext]_vars

(***************************************************************************)
(* Round trip: one write on a freshly created handle, close, a new handle  *)
(* on the same sequence id, read().  last.arg carries the payload along.   *)
(***************************************************************************)
ByteVals == {0, 7, 255}
Payloads == UNION {[1..n -> ByteVals] : n \in 0..MaxSize}

RtInit ==
  /\ NoStore
  /\ LET W == FileNew(<<>>, 1) IN docs = W.docs /\ nextId = W.nextId /\ file = W.f
  /\ last = NoCall
  /\ steps = 0

RtWrite ==
  /\ last.op = "init"
  /\ \E B \in Payloads : Step(write(Cur, B), "write", B, <<>>)

RtClose ==
  /\ last.op = "write"
  /\ Step(close(Cur), "close", last.arg, <<>>)

RtOpen ==
  /\ last.op = "close"
  /\ Step(FileOpen(docs, nextId, file.sequence.objuuid), "open", last.arg, <<>>)

RtRead ==
  /\ last.op = "open"
  /\ LET r == read_all(Cur) IN Step(r.w, "read_all", last.arg, r.buffer)

RtNext == RtWrite \/ RtClose \/ RtOpen \/ RtRead

SpecRoundTrip == RtInit /\ [][RtNext]_vars

\* C2: a payload written by one write at offset 0 of a new blob, closed and
\* read back whole from position 0 by a new handle, comes back unchanged, and
\* size() is its length (for the empty payload too).
C2_RoundTrip ==
  /\ last.op \in {"write", "close", "open", "read_all"} =>
       (last.err = "none" /\ size(Cur) = Len(last.arg))
  /\ last.op = "read_all" => last.ret = last.arg

C2_Witness ==
  /\ last.op = "read_all"
  /\ Len(last.arg) = CHUNK_SIZE + 1
  /\ last.ret = last.arg
  /\ last.arg[CHUNK_SIZE + 1] # 0
  /\ size(Cur) = CHUNK_SIZE + 1

(***************************************************************************)
(* Claims about the blob handle, checked under SpecFile.                   *)
(***************************************************************************)
CeilDiv(a, b) == (a + b - 1) \div b

\* C6 (as stated): in every state of a handle the number of chunk ids of the
\* sequence is max(1, ceil(size / capacity)).
C6_ChunkCountIsCeil ==
  Len(file.sequence.chunks) = Max(1, CeilDiv(file.sequence.size, CHUNK_SIZE))

\* C6 (amended): in every state of a handle the number of chunk ids of the
\* sequence is floor(size / capacity) + 1; a sequence of exactly one capacity
\* has 2 chunks, as has one of capacity + 1.
C6_ChunkCountIsFloorPlusOne ==
  /\ Len(file.sequence.chunks) = (file.sequence.size \div CHUNK_SIZE) + 1
  /\ file.sequence.size \in {CHUNK_SIZE, CHUNK_SIZE + 1} => Len(file.sequence.chunks) = 2

C6_Witness ==
  /\ last.op \in {"resize", "write", "truncate"}
  /\ file.sequence.size = CHUNK_SIZE
  /\ Len(file.sequence.chunks) = 2

\* C7: seek(p) raises the out-of-range error exactly when p < 0 or p >= size;
\* an accepted p becomes the cursor position and a rejected one leaves the
\* cursor where it was (no clamping).
C7_SeekRange ==
  last.op = "seek" =>
    /\ (last.err = "IndexError") <=> (last.arg < 0 \/ last.arg >= last.pre.f.sequence.size)
    /\ last.err = "none" => file.position = last.arg
    /\ last.err # "none" => file.position = last.pre.f.position

C7_Witness ==
  /\ last.op = "seek"
  /\ last.pre.f.sequence.size >= 1
  /\ last.arg = last.pre.f.sequence.size
  /\ last.err = "IndexError"
  /\ file.position = last.pre.f.position

\* C8: a read(n) on a handle that is not at end returns exactly the
\* min(n, size - p) stored bytes from the cursor p on, read() the size - p
\* bytes up to the end, and neither raises.
C8_ReadReturnsStoredBytes ==
  (last.op \in {"read", "read_all"} /\ ~last.pre.f.end_of_sequence) =>
    LET p == last.pre.f.position
        S == last.pre.f.sequence.size
        k == IF last.op = "read" THEN Min(last.arg, S - p) ELSE S - p
    IN /\ last.err = "none"
       /\ last.ret = [i \in 1..k |-> Content(last.pre)[p + i]]

\* C9: seek(size - 1) is accepted; a read(1) at size - 1 returns one byte and
\* sets at-end; while at-end is set a read returns nothing and leaves the
\* handle as it is; an accepted seek clears at-end.
C9_AtEndProtocol ==
  /\ (last.op = "seek" /\ last.pre.f.sequence.size >= 1
        /\ last.arg = last.pre.f.sequence.size - 1) => last.err = "none"
  /\ (last.op = "read" /\ last.arg = 1 /\ ~last.pre.f.end_of_sequence
        /\ last.pre.f.sequence.size >= 1
        /\ last.pre.f.position = last.pre.f.sequence.size - 1)
       => (Len(last.ret) = 1 /\ file.end_of_sequence)
  /\ (last.op \in {"read", "read_all"} /\ last.pre.f.end_of_sequence)
       => (last.ret = <<>> /\ file = last.pre.f /\ last.err = "none")
  /\ (last.op = "seek" /\ last.err = "none") => ~file.end_of_sequence

C9_Witness ==
  /\ last.op = "read" /\ last.arg = 1
  /\ last.prevop = "seek" /\ last.prevarg = last.pre.f.sequence.size - 1
  /\ ~last.pre.f.end_of_sequence
  /\ Len(last.ret) = 1
  /\ file.end_of_sequence

\* C10: a write of n >= 1 bytes at cursor p that does not follow another write
\* leaves size = max(old size, p + n), the payload at p .. p+n-1 and every
\* other position below the old size as it was.
C10_WriteAtCursor ==
  (last.op = "write" /\ Len(last.arg) >= 1 /\ ~last.pre.f.following_write) =>
    LET p == last.pre.f.position
        n == Len(last.arg)
        old == Content(last.pre)
        new == Content(Cur)
    IN /\ last.err = "none"
       /\ file.sequence.size = Max(last.pre.f.sequence.size, p + n)
       /\ Len(new) = file.sequence.size
       /\ \A i \in 1..n : new[p + i] = last.arg[i]
       /\ \A q \in 1..Len(old) : (q <= p \/ q > p + n) => new[q] = old[q]

(***************************************************************************)
(* The document store (document.py, object.py).                            *)
(*                                                                         *)
(* Strings are sequences of one-character strings, so that parsing,        *)
(* str() and the comparisons are computed and not assumed.  A scalar is an *)
(* int or a str; Absent marks a key the document does not have.            *)
(***************************************************************************)
IntVal(i) == [t |-> "int", n |-> i, s |-> <<>>]
StrVal(chars) == [t |-> "str", n |-> 0, s |-> chars]
Absent == [t |-> "absent", n |-> 0, s |-> <<>>]

DigitChar == <<"0", "1", "2", "3", "4", "5", "6", "7", "8", "9">>
IsDigit(c) == \E i \in 1..10 : DigitChar[i] = c
DigitVal(c) == (CHOOSE i \in 1..10 : DigitChar[i] = c) - 1

\* str() of a scalar: the decimal digits of an int (0..99 here), a str as it is.
Str(x) ==
  IF x.t = "int"
  THEN IF x.n < 10 THEN <<DigitChar[x.n + 1]>>
       ELSE <<DigitChar[(x.n \div 10) + 1], DigitChar[(x.n % 10) + 1]>>
  ELSE x.s

\* Characters in code-point order, for the comparison of strings.
CharOrder == <<" ", "!", "$", "%", "(", "0", "1", "2", "3", "4", "5", "6", "7", "8", "9",
               ":", "=", "A", "_", "a", "b", "e", "g", "q", "t", "x">>
Ord(c) == CHOOSE i \in 1..Len(CharOrder) : CharOrder[i] = c

RECURSIVE StrLess(_, _)
StrLess(a, b) ==
  IF b = <<>> THEN FALSE
  ELSE IF a = <<>> THEN TRUE
  ELSE IF Head(a) = Head(b) THEN StrLess(Tail(a), Tail(b))
  ELSE Ord(Head(a)) < Ord(Head(b))

\* str.upper() on the letters the operator names are written in.
LowerCase == <<"a", "c", "d", "e", "g", "h", "i", "l", "n", "o", "q", "r", "s", "t", "w", "x">>
UpperCase == <<"A", "C", "D", "E", "G", "H", "I", "L", "N", "O", "Q", "R", "S", "T", "W", "X">>
UpperChar(c) ==
  IF \E i \in 1..Len(LowerCase) : LowerCase[i] = c
  THEN UpperCase[CHOOSE i \in 1..Len(LowerCase) : LowerCase[i] = c]
  ELSE c
Upper(str) == [i \in 1..Len(str) |-> UpperChar(str[i])]

\* str.index(ch): the 0-based position of the first ch, -1 for ValueError.
IndexOf(str, ch) ==
  IF \E i \in 1..Len(str) : str[i] = ch
  THEN (CHOOSE i \in 1..Len(str) : str[i] = ch /\ \A j \in 1..(i - 1) : str[j] # ch) - 1
  ELSE -1

StartsWith(str, prefix) ==
  Len(prefix) <= Len(str) /\ SubSeq(str, 1, Len(prefix)) = prefix
EndsWith(str, suffix) ==
  Len(suffix) <= Len(str) /\ SubSeq(str, Len(str) - Len(suffix) + 1, Len(str)) = suffix
\* Python's `a in b` on strings.
IsSubstring(a, b) ==
  \E i \in 0..(Len(b) - Len(a)) : SubSeq(b, i + 1, i + Len(a)) = a

RECURSIVE LStrip(_)
LStrip(str) == IF str # <<>> /\ Head(str) = " " THEN LStrip(Tail(str)) ELSE str
RECURSIVE RStrip(_)
RStrip(str) ==
  IF str # <<>> /\ str[Len(str)] = " " THEN RStrip(SubSeq(str, 1, Len(str) - 1)) ELSE str
Strip(str) == LStrip(RStrip(str))

\* The members of the Operator enumeration, by name (document.py:169-181 and
\* the branches of find_objuuids).
OperatorName ==
  [EQ |-> <<"E", "Q">>, GT |-> <<"G", "T">>, GTE |-> <<"G", "T", "E">>,
   LT |-> <<"L", "T">>, LTE |-> <<"L", "T", "E">>,
   CONTAINS |-> <<"C", "O", "N", "T", "A", "I", "N", "S">>,
   INSIDE |-> <<"I", "N", "S", "I", "D", "E">>,
   STARTSWITH |-> <<"S", "T", "A", "R", "T", "S", "W", "I", "T", "H">>,
   ENDSWITH |-> <<"E", "N", "D", "S", "W", "I", "T", "H">>,
   REGEX |-> <<"R", "E", "G", "E", "X">>]

\* Operator[name]: the member, or "KeyError".
OperatorLookup(name) ==
  IF \E k \in DOMAIN OperatorName : OperatorName[k] = name
  THEN CHOOSE k \in DOMAIN OperatorName : OperatorName[k] = name
  ELSE "KeyError"

\* The parsing of one expression in find_objuuids ("detect start of operator"
\* to "validate operator"): [err, operator, negation, subject].
ParseExpression(expression) ==
  LET negation == StartsWith(expression, <<"$", "!">>)
      operator_start_idx == IF negation THEN 2
                            ELSE IF StartsWith(expression, <<"$">>) THEN 1 ELSE 0
      operator_stop_idx == IndexOf(expression, ":")
  IN IF operator_start_idx > 0 /\ operator_stop_idx > 0
     THEN LET op == OperatorLookup(Upper(SubSeq(expression, operator_start_idx + 1,
                                                operator_stop_idx)))
          IN IF op = "KeyError"
             THEN [err |-> "KeyError", operator |-> "EQ", negation |-> negation,
                   subject |-> expression]
             ELSE [err |-> "none", operator |-> op, negation |-> negation,
                   subject |-> SubSeq(expression, operator_stop_idx + 2, Len(expression))]
     ELSE IF operator_start_idx > 0
          THEN [err |-> "ValueError", operator |-> "EQ", negation |-> negation,
                subject |-> expression]
          ELSE [err |-> "none", operator |-> "EQ", negation |-> negation,
                subject |-> expression]

\* value LIKE pattern: % matches any run of characters, _ any one character.
RECURSIVE Like(_, _)
Like(value, pattern) ==
  IF pattern = <<>> THEN value = <<>>
  ELSE IF Head(pattern) = "%"
       THEN Like(value, Tail(pattern)) \/ (value # <<>> /\ Like(Tail(value), pattern))
       ELSE /\ value # <<>>
            /\ (Head(pattern) = "_" \/ Head(pattern) = Head(value))
            /\ Like(Tail(value), Tail(pattern))

\* coerce: a string of digits is the number it writes, any other string itself.
IsNumeric(str) == str # <<>> /\ \A i \in 1..Len(str) : IsDigit(str[i])
RECURSIVE NumVal(_)
NumVal(str) ==
  IF str = <<>> THEN 0 ELSE 10 * NumVal(SubSeq(str, 1, Len(str) - 1)) + DigitVal(str[Len(str)])
coerce(str) == IF IsNumeric(str) THEN IntVal(NumVal(str)) ELSE StrVal(str)

\* a < b on coerced values: "TRUE", "FALSE", or "TypeError" between a number
\* and a string.
Less(a, b) ==
  IF a.t # b.t THEN "TypeError"
  ELSE IF a.t = "int" THEN (IF a.n < b.n THEN "TRUE" ELSE "FALSE")
  ELSE IF StrLess(a.s, b.s) THEN "TRUE" ELSE "FALSE"

Not(r) == CASE r = "TRUE" -> "FALSE" [] r = "FALSE" -> "TRUE" [] OTHER -> r

\* re.search(pattern, value) for patterns of literal characters, with "(" an
\* unbalanced parenthesis (re.error): "TRUE", "FALSE" or "error".
RegexSearch(pattern, value) ==
  IF \E i \in 1..Len(pattern) : pattern[i] = "(" THEN "error"
  ELSE IF IsSubstring(pattern, value) THEN "TRUE" ELSE "FALSE"

\* The comparison of the last branch of find_objuuids for one index row:
\* "TRUE", "FALSE", or "error" when the comparison raised (the row is skipped).
Compare(operator, value, subject) ==
  LET lt == Less(coerce(value), coerce(subject))
      gt == Less(coerce(subject), coerce(value))
  IN CASE operator = "GT" -> IF gt = "TypeError" THEN "error" ELSE gt
       [] operator = "GTE" -> IF lt = "TypeError" THEN "error" ELSE Not(lt)
       [] operator = "LT" -> IF lt = "TypeError" THEN "error" ELSE lt
       [] operator = "LTE" -> IF gt = "TypeError" THEN "error" ELSE Not(gt)
       [] operator = "INSIDE" -> IF IsSubstring(value, subject) THEN "TRUE" ELSE "FALSE"
       [] operator = "REGEX" -> RegexSearch(subject, value)
       [] OTHER -> "FALSE"

\* Mutant: negated equality that selects the equal rows.
SelectEq_same(rows, subject, negation) ==
  {r.objuuid : r \in {x \in rows : x.value = subject}}

\* select OBJUUID ... where VALUE = subject / VALUE != subject
SelectEq(rows, subject, negation) ==
  {r.objuuid : r \in {x \in rows : IF negation THEN x.value # subject
                                                ELSE x.value = subject}}

\* select OBJUUID ... where VALUE like pattern / VALUE not like pattern
SelectLike(rows, pattern, negation) ==
  {r.objuuid : r \in {x \in rows : IF negation THEN ~Like(x.value, pattern)
                                                ELSE Like(x.value, pattern)}}

\* The loop over the rows in the last branch: a row is appended when
\* `append or (negation and not append)`, and skipped when the comparison raised.
SelectCompare(rows, operator, subject, negation) ==
  {r.objuuid : r \in {x \in rows :
      LET append == Compare(operator, x.value, subject)
      IN append # "error" /\ (append = "TRUE" \/ (negation /\ append # "TRUE"))}}

\* "process operator": the statement one parsed clause issues and its result.
EvalClause(index, coluuid, attribute, q) ==
  LET rows == {r \in index : r.attribute = attribute /\ r.coluuid = coluuid}
  IN CASE q.operator = "EQ" -> SelectEq(rows, q.subject, q.negation)
       [] q.operator = "CONTAINS" ->
            SelectLike(rows, <<"%">> \o q.subject \o <<"%">>, q.negation)
       [] q.operator = "STARTSWITH" -> SelectLike(rows, q.subject \o <<"%">>, q.negation)
       [] q.operator = "ENDSWITH" -> SelectLike(rows, <<"%">> \o q.subject, q.negation)
       [] OTHER -> SelectCompare(rows, q.operator, q.subject, q.negation)

\* "unpack params": each positional parameter is split at its first "=";
\* "ValueError" when one has none.  [err, queries]
RECURSIVE UnpackParams(_)
UnpackParams(params) ==
  IF params = <<>> THEN [err |-> "none", queries |-> <<>>]
  ELSE LET param == Head(params)
           attribute_stop_idx == IndexOf(param, "=")
           rest == UnpackParams(Tail(params))
       IN IF attribute_stop_idx < 0 \/ rest.err # "none"
          THEN [err |-> "ValueError", queries |-> <<>>]
          ELSE [err |-> "none",
                queries |->
                  <<[attribute |-> Strip(SubSeq(param, 1, attribute_stop_idx)),
                     expression |-> LStrip(SubSeq(param, attribute_stop_idx + 2,
                                                  Len(param)))]>> \o rest.queries]

\* "process queries": clause after clause is parsed and, when well formed,
\* executed; a malformed clause raises at its turn.  acc is
\* [err, lists, stmts]: the result lists so far and the statements issued.
RECURSIVE ProcessQueries(_, _, _, _)
ProcessQueries(index, coluuid, queries, acc) ==
  IF queries = <<>> THEN acc
  ELSE LET q == ParseExpression(Head(queries).expression)
       IN IF q.err # "none" THEN [acc EXCEPT !.err = q.err]
          ELSE ProcessQueries(index, coluuid, Tail(queries),
                 [acc EXCEPT !.lists = Append(@, EvalClause(index, coluuid,
                                                            Head(queries).attribute, q)),
                             !.stmts = @ + 1])

\* Mutant: the union of the result lists in place of their intersection.
RECURSIVE Intersection_union(_)
Intersection_union(lists) ==
  IF Len(lists) = 1 THEN lists[1] ELSE lists[1] \cup Intersection_union(Tail(lists))

\* The intersection of the result lists (objuuid_lists is not empty).
RECURSIVE Intersection(_)
Intersection(lists) ==
  IF Len(lists) = 1 THEN lists[1] ELSE lists[1] \cap Intersection(Tail(lists))

\* Document.find_objuuids(coluuid, *params, **kwparams):
\* [err, result, stmts], stmts the number of statements issued to the store.
find_objuuids(index, coluuid, params, kwparams) ==
  LET unpacked == UnpackParams(params)
  IN IF unpacked.err # "none"
     THEN [err |-> "ValueError", result |-> {}, stmts |-> 0]
     ELSE LET acc == ProcessQueries(index, coluuid, unpacked.queries \o kwparams,
                                    [err |-> "none", lists |-> <<>>, stmts |-> 0])
          IN IF acc.err # "none" THEN [err |-> acc.err, result |-> {}, stmts |-> acc.stmts]
             ELSE [err |-> "none",
                   result |-> IF acc.lists = <<>> THEN {} ELSE Intersection(acc.lists),
                   stmts |-> acc.stmts]

(***************************************************************************)
(* The tables.  db = [collections, objects, attributes, index]:            *)
(*   collections the collection ids                  (TBL_COLLECTIONS)     *)
(*   objects     objuuid -> [coluuid, value]         (TBL_OBJECTS)         *)
(*   attributes  rows [coluuid, attribute, path]     (TBL_ATTRIBUTES)      *)
(*   index       rows [objuuid, coluuid, attribute, value]  (TBL_INDEX)    *)
(* A document is [objuuid, coluuid, k, n]: its two ids and two caller keys,*)
(* each a scalar or Absent.  A path is the sequence of its keys.           *)
(***************************************************************************)
\* The width of TBL_INDEX.VALUE, VARCHAR(64) at document.py:68, scaled down.
VALUE_WIDTH == 3

EmptyDb == [collections |-> {}, objects |-> <<>>, attributes |-> {}, index |-> {}]

\* create_object: the value holds the two ids only.
NewValue(coluuid, objuuid) ==
  [objuuid |-> StrVal(<<objuuid>>), coluuid |-> StrVal(<<coluuid>>), k |-> Absent, n |-> Absent]

\* read_key_at_path: the value at a slash-delimited path of keys; a missing
\* key or a step into a scalar fails (KeyError, TypeError).  [ok, val]
read_key_at_path(path, object) ==
  IF Len(path) = 1 /\ path[1] \in DOMAIN object /\ object[path[1]].t # "absent"
  THEN [ok |-> TRUE, val |-> object[path[1]]]
  ELSE [ok |-> FALSE, val |-> Absent]

\* Document.list_attributes
list_attributes(db, coluuid) == {a \in db.attributes : a.coluuid = coluuid}

\* Document.create_object; TBL_OBJECTS.COLUUID references TBL_COLLECTIONS, so
\* the insert fails for a collection that has no row.  [db, err]
create_object(db, coluuid, objuuid) ==
  IF coluuid \in db.collections
  THEN [db |-> [db EXCEPT !.objects =
                   Put(db.objects, objuuid,
                       [coluuid |-> coluuid, value |-> NewValue(coluuid, objuuid)])],
        err |-> "none"]
  ELSE [db |-> db, err |-> "ForeignKeyViolation"]

\* Mutant: load without create-on-miss.
load_no_create(db, coluuid, objuuid) ==
  IF objuuid \in DOMAIN db.objects THEN [db |-> db, err |-> "none"]
  ELSE [db |-> db, err |-> "IndexError"]

\* Object.load: get_object, and create_object on IndexError.  [db, err]
load(db, coluuid, objuuid) ==
  IF objuuid \in DOMAIN db.objects THEN [db |-> db, err |-> "none"]
  ELSE create_object(db, coluuid, objuuid)

\* Mutant: an indexing loop that stops at the first attribute it cannot extract.
RECURSIVE IndexLoop_stops(_, _, _, _)
IndexLoop_stops(db, coluuid, objuuid, order) ==
  IF order = <<>> THEN [db |-> db, err |-> "none"]
  ELSE LET a == Head(order)
           r == IF objuuid \in DOMAIN db.objects
                THEN read_key_at_path(a.path, db.objects[objuuid].value)
                ELSE [ok |-> FALSE, val |-> Absent]
       IN IF ~r.ok THEN [db |-> db, err |-> "none"]
          ELSE IF Len(Str(r.val)) > VALUE_WIDTH THEN [db |-> db, err |-> "DataError"]
          ELSE IndexLoop_stops([db EXCEPT !.index = @ \cup
                                  {[objuuid |-> objuuid, coluuid |-> coluuid,
                                    attribute |-> a.attribute, value |-> Str(r.val)]}],
                               coluuid, objuuid, Tail(order))

\* The indexing loop of set_object over the declared attributes in the order
\* the select returned them.  get_object raises IndexError without a row, and
\* read_key_at_path raises on a bad path: both are caught and the attribute is
\* skipped.  A value wider than the column is a database error, which is not
\* caught; what the loop inserted before it stays (get_object commits).
RECURSIVE IndexLoop(_, _, _, _)
IndexLoop(db, coluuid, objuuid, order) ==
  IF order = <<>> THEN [db |-> db, err |-> "none"]
  ELSE LET a == Head(order)
           r == IF objuuid \in DOMAIN db.objects
                THEN read_key_at_path(a.path, db.objects[objuuid].value)
                ELSE [ok |-> FALSE, val |-> Absent]
       IN IF ~r.ok THEN IndexLoop(db, coluuid, objuuid, Tail(order))
          ELSE IF Len(Str(r.val)) > VALUE_WIDTH THEN [db |-> db, err |-> "DataError"]
          ELSE IndexLoop([db EXCEPT !.index = @ \cup
                            {[objuuid |-> objuuid, coluuid |-> coluuid,
                              attribute |-> a.attribute, value |-> Str(r.val)]}],
                         coluuid, objuuid, Tail(order))

\* Mutant: set_object without the delete of the object's earlier index rows.
set_object_keeps_index(db, coluuid, objuuid, updated_object, order) ==
  LET v == [updated_object EXCEPT !.objuuid = StrVal(<<objuuid>>),
                                  !.coluuid = StrVal(<<coluuid>>)]
      db1 == [db EXCEPT !.objects =
                 IF objuuid \in DOMAIN db.objects
                 THEN [db.objects EXCEPT ![objuuid].value = v] ELSE db.objects]
  IN IndexLoop(db1, coluuid, objuuid, order)

\* Document.set_object; order is the order of list_attributes' rows.
\* [db, err]
set_object(db, coluuid, objuuid, updated_object, order) ==
  LET v == [updated_object EXCEPT !.objuuid = StrVal(<<objuuid>>),
                                  !.coluuid = StrVal(<<coluuid>>)]
      db1 == [db EXCEPT !.objects =
                 IF objuuid \in DOMAIN db.objects
                 THEN [db.objects EXCEPT ![objuuid].value = v] ELSE db.objects,
              !.index = {r \in db.index : r.objuuid # objuuid}]
  IN IndexLoop(db1, coluuid, objuuid, order)

\* Document.delete_object; the rows of TBL_INDEX go with it (ON DELETE CASCADE).
delete_object(db, objuuid) ==
  [db EXCEPT !.objects = Destroy(db.objects, objuuid),
             !.index = {r \in db.index : r.objuuid # objuuid}]

\* Mutant: create_attribute that declares the attribute and indexes nothing.
create_attribute_no_backfill(db, coluuid, attribute, path) ==
  IF \E a \in db.attributes : a.coluuid = coluuid /\ a.attribute = attribute
  THEN [db |-> db, err |-> "UniqueViolation"]
  ELSE IF coluuid \notin db.collections
  THEN [db |-> db, err |-> "ForeignKeyViolation"]
  ELSE [db |-> [db EXCEPT !.attributes = @ \cup {[coluuid |-> coluuid,
                                                  attribute |-> attribute,
                                                  path |-> path]}],
        err |-> "none"]

\* Document.create_attribute with its backfill.  A second declaration of
\* (coluuid, attribute), an index row the object already has for that
\* attribute name, a value wider than the column and a collection that has no
\* row are database errors; nothing of the call is committed then.  [db, err]
create_attribute(db, coluuid, attribute, path) ==
  LET rows == {o \in DOMAIN db.objects : db.objects[o].coluuid = coluuid}
      ok == {o \in rows : read_key_at_path(path, db.objects[o].value).ok}
      new == {[objuuid |-> o, coluuid |-> coluuid, attribute |-> attribute,
               value |-> Str(read_key_at_path(path, db.objects[o].value).val)] : o \in ok}
  IN IF \E a \in db.attributes : a.coluuid = coluuid /\ a.attribute = attribute
     THEN [db |-> db, err |-> "UniqueViolation"]
     ELSE IF coluuid \notin db.collections
     THEN [db |-> db, err |-> "ForeignKeyViolation"]
     ELSE IF \E r \in new : \E x \in db.index :
                               x.objuuid = r.objuuid /\ x.attribute = r.attribute
     THEN [db |-> db, err |-> "UniqueViolation"]
     ELSE IF \E r \in new : Len(r.value) > VALUE_WIDTH
     THEN [db |-> db, err |-> "DataError"]
     ELSE [db |-> [db EXCEPT !.attributes = @ \cup {[coluuid |-> coluuid,
                                                     attribute |-> attribute,
                                                     path |-> path]},
                             !.index = @ \cup new],
           err |-> "none"]

\* Document.delete_attribute
delete_attribute(db, coluuid, attribute) ==
  [db EXCEPT !.attributes = {a \in @ : ~(a.coluuid = coluuid /\ a.attribute = attribute)},
             !.index = {r \in @ : ~(r.coluuid = coluuid /\ r.attribute = attribute)}]

\* Mutant: delete_collection whose attribute declarations do not go with it.
delete_collection_keeps_attributes(db, coluuid) ==
  LET gone == {o \in DOMAIN db.objects : db.objects[o].coluuid = coluuid}
  IN [db EXCEPT !.collections = @ \ {coluuid},
                !.objects = [o \in (DOMAIN db.objects) \ gone |-> db.objects[o]],
                !.index = {r \in @ : r.objuuid \notin gone}]

\* Document.delete_collection; the objects and the attribute declarations of
\* the collection go with its row, and with them the index rows that refer to
\* one of those objects or to one of those declarations (ON DELETE CASCADE).
delete_collection(db, coluuid) ==
  LET gone == {o \in DOMAIN db.objects : db.objects[o].coluuid = coluuid}
  IN [db EXCEPT !.collections = @ \ {coluuid},
                !.objects = [o \in (DOMAIN db.objects) \ gone |-> db.objects[o]],
                !.attributes = {a \in @ : a.coluuid # coluuid},
                !.index = {r \in @ : r.objuuid \notin gone /\ r.coluuid # coluuid}]

(***************************************************************************)
(* The document store as a state machine.                                  *)
(***************************************************************************)
Cols == {"c1", "c2"}
AttrK == <<"k">>
AttrN == <<"n">>
PathK == <<"k">>
PathN == <<"n">>
PathDeep == <<"k", "x">>

\* The declarations init_collections makes at start-up (main.py:27-35),
\* here two attributes in c1 and one in c2.
DeclaredAtStart ==
  {[coluuid |-> "c1", attribute |-> AttrK, path |-> PathK],
   [coluuid |-> "c1", attribute |-> AttrN, path |-> PathN],
   [coluuid |-> "c2", attribute |-> AttrK, path |-> PathK]}

Document(k, n) == [objuuid |-> Absent, coluuid |-> Absent, k |-> k, n |-> n]

\* The sequences that enumerate a set: the orders a select may return it in.
Orders(set) ==
  {f \in [1..Cardinality(set) -> set] : \A i, j \in 1..Cardinality(set) : f[i] = f[j] => i = j}

NoDocCall ==
  [op |-> "init", coluuid |-> "", objuuid |-> "", attribute |-> <<>>, val |-> Absent,
   params |-> <<>>, kwparams |-> <<>>, pre |-> EmptyDb, err |-> "none",
   result |-> {}, stmts |-> 0]

\* The part of the state a specification of the document store leaves alone.
NoBlob == docs = <<>> /\ nextId = 0 /\ file = <<>> /\ last = <<>> /\ NoLock

DocInit ==
  /\ NoBlob
  /\ tables = [EmptyDb EXCEPT !.collections = Cols, !.attributes = DeclaredAtStart]
  /\ handles = {}
  /\ dlast = NoDocCall
  /\ steps = 0

\* Object(coluuid, objuuid): Object.__init__ and load; there is no handle when
\* load raised.  dlast.val is the value the handle holds (self.object).
Open(pairs) ==
  \E h \in pairs :
    LET r == load(tables, h.coluuid, h.objuuid)
    IN /\ tables' = r.db
       /\ handles' = IF r.err = "none" THEN handles \cup {h} ELSE handles
       /\ dlast' = [NoDocCall EXCEPT !.op = "open", !.coluuid = h.coluuid,
                                     !.objuuid = h.objuuid, !.pre = tables,
                                     !.err = r.err,
                                     !.val = IF r.err = "none"
                                             THEN r.db.objects[h.objuuid].value
                                             ELSE Absent]

\* handle.object = document; handle.set()
Commit(documents) ==
  \E h \in handles : \E v \in documents :
    \E order \in Orders(list_attributes(tables, h.coluuid)) :
      LET r == set_object(tables, h.coluuid, h.objuuid, v, order)
      IN /\ tables' = r.db
         /\ dlast' = [NoDocCall EXCEPT !.op = "commit", !.coluuid = h.coluuid,
                                       !.objuuid = h.objuuid, !.val = v,
                                       !.pre = tables, !.err = r.err]
         /\ UNCHANGED handles

\* handle.destroy(): the handle's object becomes None, it is of no further use.
DestroyObject ==
  \E h \in handles :
    /\ tables' = delete_object(tables, h.objuuid)
    /\ handles' = handles \ {h}
    /\ dlast' = [NoDocCall EXCEPT !.op = "destroy", !.coluuid = h.coluuid,
                                  !.objuuid = h.objuuid, !.pre = tables]

CreateAttribute ==
  \E c \in Cols : \E a \in {AttrK, AttrN} : \E path \in {PathK, PathN, PathDeep} :
    LET r == create_attribute(tables, c, a, path)
    IN /\ tables' = r.db
       /\ dlast' = [NoDocCall EXCEPT !.op = "create_attribute", !.coluuid = c,
                                     !.attribute = a, !.pre = tables, !.err = r.err]
       /\ UNCHANGED handles

DeleteAttribute ==
  \E c \in Cols : \E a \in {AttrK, AttrN} :
    /\ tables' = delete_attribute(tables, c, a)
    /\ dlast' = [NoDocCall EXCEPT !.op = "delete_attribute", !.coluuid = c,
                                  !.attribute = a, !.pre = tables]
    /\ UNCHANGED handles

\* delete_collection(coluuid)
DeleteCollection ==
  \E c \in Cols :
    /\ tables' = delete_collection(tables, c)
    /\ dlast' = [NoDocCall EXCEPT !.op = "delete_collection", !.coluuid = c,
                                  !.pre = tables]
    /\ UNCHANGED handles

\* collection.find_objuuids(*params, **kwparams)
Find(queries) ==
  \E c \in Cols : \E q \in queries :
    LET r == find_objuuids(tables.index, c, q.params, q.kwparams)
    IN /\ dlast' = [NoDocCall EXCEPT !.op = "find", !.coluuid = c, !.params = q.params,
                                     !.kwparams = q.kwparams, !.pre = tables,
                                     !.err = r.err, !.result = r.result,
                                     !.stmts = r.stmts]
       /\ UNCHANGED <<tables, handles>>

(***************************************************************************)
(* SpecDoc: opening, committing and destroying objects and declaring and   *)
(* deleting attributes and deleting collections, MaxDocSteps calls long.   *)
(***************************************************************************)
MaxDocSteps == 4

DocPairs == {[coluuid |-> c, objuuid |-> o] : c \in Cols, o \in {"o1", "o2"}}
DocDocuments ==
  {Document(k, n) : k \in {Absent, IntVal(5), StrVal(<<"5">>), StrVal(<<"$", "a">>),
                           StrVal(<<"a", "b">>), StrVal(<<"a", "b", "a", "b">>)},
                    n \in {Absent, IntVal(12)}}

Tick == steps' = steps + 1 /\ UNCHANGED <<docs, nextId, file, last, cache, callers>>

DocOpen == steps < MaxDocSteps /\ Open(DocPairs) /\ Tick
DocCommit == steps < MaxDocSteps /\ Commit(DocDocuments) /\ Tick
DocDestroy == steps < MaxDocSteps /\ DestroyObject /\ Tick
DocCreateAttribute == steps < MaxDocSteps /\ CreateAttribute /\ Tick
DocDeleteAttribute == steps < MaxDocSteps /\ DeleteAttribute /\ Tick
DocDeleteCollection == steps < MaxDocSteps /\ DeleteCollection /\ Tick

DocNext ==
  \/ DocOpen \/ DocCommit \/ DocDestroy
  \/ DocCreateAttribute \/ DocDeleteAttribute \/ DocDeleteCollection

SpecDoc == DocInit /\ [][DocNext]_vars

(***************************************************************************)
(* SpecQuery: find_objuuids asked every query of a bounded set, of every   *)
(* index that commits of a few one-key documents leave behind.             *)
(***************************************************************************)
QueryValues == {Absent, IntVal(5), IntVal(12), StrVal(<<"a", "b">>), StrVal(<<"$", "a">>)}

\* Object(coluuid, objuuid), object = Document(k, n), set(); k = Absent stands
\* for a call never made.
Stored(db, coluuid, objuuid, k, n) ==
  IF k = Absent THEN db
  ELSE LET db1 == load(db, coluuid, objuuid).db
           order == CHOOSE o \in Orders(list_attributes(db1, coluuid)) : TRUE
       IN set_object(db1, coluuid, objuuid, Document(k, n), order).db

LowerChar(c) ==
  IF \E i \in 1..Len(UpperCase) : UpperCase[i] = c
  THEN LowerCase[CHOOSE i \in 1..Len(UpperCase) : UpperCase[i] = c]
  ELSE c
Lower(str) == [i \in 1..Len(str) |-> LowerChar(str[i])]

Subjects == {<<>>, <<"5">>, <<"7">>, <<"a">>, <<"a", "b">>, <<"$", "a">>, <<"(">>,
             <<"A">>, <<"_">>}
Tokens == {Lower(OperatorName[k]) : k \in DOMAIN OperatorName} \cup {<<"E", "q">>, <<"x", "x">>}
Prefixes == {<<"$">>, <<"$", "!">>}

\* Naked operands, `$op:operand` and `$!op:operand` for every token (one of
\* them no operator), and a prefix without its separator.
Expressions ==
  Subjects
  \cup {p \o t \o <<":">> \o subj : p \in Prefixes, t \in Tokens, subj \in Subjects}
  \cup {p \o <<"e", "q">> : p \in Prefixes}

FewExpressions == {<<"5">>, <<"$", "g", "t", ":", "5">>, <<"$", "x", "x", ":", "5">>,
                   <<"$", "e", "q">>}
Positional == {<<"k", "=", "5">>, <<" ", "k", " ", "=", " ", "5">>, <<"k", " ", "5">>,
               <<"n", "=", "$", "x", "x", ":", "5">>,
               <<"k", "=", "$", "g", "t", "e", ":", "5">>}

Clause(a, e) == [attribute |-> a, expression |-> e]
Query(params, kwparams) == [params |-> params, kwparams |-> kwparams]

Queries ==
  {Query(<<>>, <<Clause(a, e)>>) : a \in {AttrK, AttrN}, e \in Expressions}
  \cup {Query(<<>>, <<Clause(AttrK, e1), Clause(AttrN, e2)>>) :
          e1 \in FewExpressions, e2 \in FewExpressions}
  \cup {Query(<<p>>, <<>>) : p \in Positional}
  \cup {Query(<<p1, p2>>, <<>>) : p1 \in Positional, p2 \in Positional}

\* Two objects of c1 and one of c2, committed, the second with a value at n;
\* the object of c2 may have been committed once more through a handle of c1.
QueryInit ==
  /\ NoBlob
  /\ \E k1 \in QueryValues : \E k2 \in QueryValues : \E k3 \in QueryValues :
       \E k4 \in {Absent, IntVal(5)} :
         tables =
           Stored(Stored(Stored(Stored([EmptyDb EXCEPT !.collections = Cols,
                                                       !.attributes = DeclaredAtStart],
                                       "c1", "o1", k1, Absent),
                                "c1", "o2", k2, IntVal(12)),
                         "c2", "o3", k3, Absent),
                  "c1", "o3", k4, Absent)
  /\ handles = {}
  /\ dlast = NoDocCall
  /\ steps = 0

\* A query changes no table: what follows a query is what follows the state it
\* was asked in, so one query is asked of each state.
QueryFind ==
  /\ dlast.op # "find"
  /\ Find(Queries)
  /\ UNCHANGED <<docs, nextId, file, last, steps, cache, callers>>

QueryNext == QueryFind

SpecQuery == QueryInit /\ [][QueryNext]_vars

(***************************************************************************)
(* Claims about commit and the index, checked under SpecDoc.               *)
(***************************************************************************)
\* The bare equality query find_objuuids(attribute=operand).
Found(db, coluuid, attribute, operand, objuuid) ==
  LET r == find_objuuids(db.index, coluuid, <<>>, <<Clause(attribute, operand)>>)
  IN r.err = "none" /\ objuuid \in r.result

\* The explicit equality query find_objuuids(attribute="$eq:" + operand).
FoundEq(db, coluuid, attribute, operand, objuuid) ==
  Found(db, coluuid, attribute, <<"$", "e", "q", ":">> \o operand, objuuid)

\* A commit that returned.
Committed ==
  /\ dlast.op = "commit"
  /\ dlast.err = "none"
  /\ dlast.objuuid \in DOMAIN tables.objects

NewAt(path) == read_key_at_path(path, tables.objects[dlast.objuuid].value)
OldAt(path) == read_key_at_path(path, dlast.pre.objects[dlast.objuuid].value)

\* C1 (as stated): after a commit the equality query with the string form of
\* the object's value at a declared path returns the object, and when the
\* commit changed that value to a different one the query with the old value
\* no longer returns it.
C1_IndexFollowsValue ==
  Committed =>
    \A a \in list_attributes(tables, dlast.coluuid) :
      NewAt(a.path).ok =>
        /\ Found(tables, dlast.coluuid, a.attribute, Str(NewAt(a.path).val), dlast.objuuid)
        /\ (OldAt(a.path).ok /\ OldAt(a.path).val # NewAt(a.path).val) =>
             ~Found(tables, dlast.coluuid, a.attribute, Str(OldAt(a.path).val),
                    dlast.objuuid)

\* C1 (amended): after a commit that returns, the equality query with the
\* string form of the value at a declared path, written `$eq:v` or, when v
\* does not begin with "$", bare, returns the object; when the commit changed
\* the string form of that value, the same queries with the old string form
\* no longer return it.
C1_IndexFollowsStringForm ==
  Committed =>
    \A a \in list_attributes(tables, dlast.coluuid) :
      NewAt(a.path).ok =>
        /\ FoundEq(tables, dlast.coluuid, a.attribute, Str(NewAt(a.path).val),
                   dlast.objuuid)
        /\ ~StartsWith(Str(NewAt(a.path).val), <<"$">>) =>
             Found(tables, dlast.coluuid, a.attribute, Str(NewAt(a.path).val),
                   dlast.objuuid)
        /\ (OldAt(a.path).ok /\ Str(OldAt(a.path).val) # Str(NewAt(a.path).val)) =>
             /\ ~FoundEq(tables, dlast.coluuid, a.attribute, Str(OldAt(a.path).val),
                         dlast.objuuid)
             /\ ~StartsWith(Str(OldAt(a.path).val), <<"$">>) =>
                  ~Found(tables, dlast.coluuid, a.attribute, Str(OldAt(a.path).val),
                         dlast.objuuid)

C1_Witness ==
  /\ Committed
  /\ \E a \in list_attributes(tables, dlast.coluuid) :
       /\ OldAt(a.path).ok /\ NewAt(a.path).ok
       /\ Str(OldAt(a.path).val) # Str(NewAt(a.path).val)
       /\ Found(dlast.pre, dlast.coluuid, a.attribute, Str(OldAt(a.path).val),
                dlast.objuuid)
       /\ Found(tables, dlast.coluuid, a.attribute, Str(NewAt(a.path).val), dlast.objuuid)
       /\ ~Found(tables, dlast.coluuid, a.attribute, Str(OldAt(a.path).val),
                 dlast.objuuid)

(***************************************************************************)
(* Claims about find_objuuids, checked under SpecQuery.                    *)
(***************************************************************************)
\* The last call was a query of one keyword clause that parsed.
OneClause ==
  /\ dlast.op = "find"
  /\ dlast.params = <<>>
  /\ Len(dlast.kwparams) = 1
  /\ ParseExpression(dlast.kwparams[1].expression).err = "none"

Asked == ParseExpression(dlast.kwparams[1].expression)
AskedRows ==
  {r \in tables.index : r.attribute = dlast.kwparams[1].attribute
                          /\ r.coluuid = dlast.coluuid}

\* `$!op:s` for `$op:s` and the other way round.
Opposite(expression) ==
  IF StartsWith(expression, <<"$", "!">>)
  THEN <<"$">> \o SubSeq(expression, 3, Len(expression))
  ELSE <<"$", "!">> \o SubSeq(expression, 2, Len(expression))

OppositeResult ==
  find_objuuids(tables.index, dlast.coluuid, <<>>,
                <<Clause(dlast.kwparams[1].attribute,
                         Opposite(dlast.kwparams[1].expression))>>)

\* C3: for every operator the result of `$!op:s` is the set of the objects
\* indexed for the attribute whose comparison did not fail and that are not in
\* the result of `$op:s`.
C3_NegationInverts ==
  (OneClause /\ Asked.negation) =>
    /\ dlast.err = "none"
    /\ dlast.result =
         {r.objuuid : r \in {x \in AskedRows :
            ~(Asked.operator \in {"GT", "GTE", "LT", "LTE", "INSIDE", "REGEX"}
              /\ Compare(Asked.operator, x.value, Asked.subject) = "error")}}
         \ OppositeResult.result

\* C4: the results of `$eq:s` and `$!eq:s` are disjoint and together they are
\* the objects that have an index row for the attribute in the collection.
C4_EqNegationComplement ==
  (OneClause /\ Asked.operator = "EQ"
     /\ StartsWith(dlast.kwparams[1].expression, <<"$">>)) =>
    /\ dlast.err = "none"
    /\ OppositeResult.err = "none"
    /\ dlast.result \cap OppositeResult.result = {}
    /\ dlast.result \cup OppositeResult.result = {r.objuuid : r \in AskedRows}

C4_Witness ==
  /\ OneClause /\ Asked.operator = "EQ" /\ Asked.negation
  /\ dlast.result # {}
  /\ OppositeResult.result # {}
  /\ \E r \in tables.index : r.attribute = dlast.kwparams[1].attribute
                               /\ r.coluuid # dlast.coluuid

\* A clause the claim calls malformed: a "$" prefix with no ":" after it, or
\* with a token that names no operator.
Malformed(expression) == ParseExpression(expression).err # "none"

\* C5: a query with a malformed clause, or with a positional parameter that
\* has no "=", raises, and no statement of the call has reached the store.
C5_RejectedBeforeStore ==
  (/\ dlast.op = "find"
   /\ \/ \E i \in 1..Len(dlast.params) : IndexOf(dlast.params[i], "=") < 0
      \/ \E i \in 1..Len(dlast.kwparams) : Malformed(dlast.kwparams[i].expression)
      \/ \E i \in 1..Len(dlast.params) :
           IndexOf(dlast.params[i], "=") >= 0 /\
           Malformed(LStrip(SubSeq(dlast.params[i], IndexOf(dlast.params[i], "=") + 2,
                                   Len(dlast.params[i])))))
    => (dlast.err # "none" /\ dlast.stmts = 0)

(***************************************************************************)
(* SpecAppend: write after write on a freshly created handle, no seek in   *)
(* between.  last.arg carries the concatenation of the payloads so far,    *)
(* last.ret the payload of the last write.                                 *)
(***************************************************************************)
MaxAppends == 4

ApInit ==
  /\ NoStore
  /\ LET W == FileNew(<<>>, 1) IN docs = W.docs /\ nextId = W.nextId /\ file = W.f
  /\ last = [NoCall EXCEPT !.arg = <<>>]
  /\ steps = 0

ApWrite ==
  /\ steps < MaxAppends
  /\ \E n \in 0..MaxLen :
       LET B == Payload(steps + 1, n)
       IN Step(write(Cur, B), "write", last.arg \o B, B)

ApNext == ApWrite

SpecAppend == ApInit /\ [][ApNext]_vars

\* C11: after any sequence of writes on a new handle with no seek in between,
\* size is the sum of the payload lengths and the blob holds the payloads
\* one after the other.
C11_AppendConcatenates ==
  last.op = "write" =>
    /\ last.err = "none"
    /\ size(Cur) = Len(last.arg)
    /\ Content(Cur) = last.arg

(***************************************************************************)
(* SpecCopy: copy_file from a handle at position 0 of a stored blob into a *)
(* freshly created handle.  file is the destination handle afterwards,     *)
(* last.pre the source as it was before the copy.                          *)
(***************************************************************************)
\* The one element of a singleton: binds the outcome of a call to a name.
The(S) == CHOOSE x \in S : TRUE

\* C is [docs, nextId, inp, out, err]: the store and the two handles of
\* copy_file.  C after out_f.write(...) gave w, and after inp_f.read(...) gave r.
CopyWritten(C, w) ==
  [C EXCEPT !.docs = w.docs, !.nextId = w.nextId, !.out = w.f, !.err = w.err]

CopyRead(C, r) ==
  [C EXCEPT !.docs = r.w.docs, !.nextId = r.w.nextId, !.inp = r.w.f, !.err = r.w.err]

\* The rest of copy_file after a read returned chunk: write it, and read on
\* while the chunk read was not empty.
RECURSIVE CopyLoop(_, _)
CopyLoop(C, chunk) ==
  The({ IF w.err # "none" \/ chunk = <<>> THEN CopyWritten(C, w)
        ELSE The({ IF r.w.err # "none" THEN CopyRead(CopyWritten(C, w), r)
                   ELSE CopyLoop(CopyRead(CopyWritten(C, w), r), r.buffer)
                 : r \in {read(World(w.docs, w.nextId, C.inp), CHUNK_SIZE)} })
      : w \in {write(World(C.docs, C.nextId, C.out), chunk)} })

\* copy_file(inp_f, out_f)
copy_file(d, n, inp_f, out_f) ==
  The({ IF C1.err # "none" THEN C1
        ELSE The({ [C1 EXCEPT !.docs = close(World(o.docs, o.nextId, C1.inp)).docs]
                 : o \in {close(World(C1.docs, C1.nextId, C1.out))} })
      : C1 \in { The({ IF r.w.err # "none"
                       THEN [docs |-> r.w.docs, nextId |-> r.w.nextId, inp |-> r.w.f,
                             out |-> out_f, err |-> r.w.err]
                       ELSE CopyLoop([docs |-> r.w.docs, nextId |-> r.w.nextId,
                                      inp |-> r.w.f, out |-> out_f, err |-> r.w.err],
                                     r.buffer)
                     : r \in {read(World(d, n, inp_f), CHUNK_SIZE)} }) } })

\* A handle opened on a stored blob that holds B (B empty: a blob just created).
SourceOf(B) ==
  LET W0 == FileNew(<<>>, 1)
      W1 == close(write(W0, B))
  IN IF B = <<>> THEN W0 ELSE FileOpen(W1.docs, W1.nextId, W0.f.sequence.objuuid)

CpInit ==
  /\ NoStore
  /\ \E B \in Payloads :
       LET W == SourceOf(B) IN docs = W.docs /\ nextId = W.nextId /\ file = W.f
  /\ last = NoCall
  /\ steps = 0

CpCopy ==
  /\ last.op = "init"
  /\ \E C \in {copy_file(FileNew(docs, nextId).docs, FileNew(docs, nextId).nextId,
                           file, FileNew(docs, nextId).f)} :
       Step([docs |-> C.docs, nextId |-> C.nextId, f |-> C.out, err |-> C.err],
            "copy", 0, <<>>)

CpNext == CpCopy

SpecCopy == CpInit /\ [][CpNext]_vars

\* C12: copy_file from a source at position 0 into a new blob leaves the
\* destination with the size and the bytes of the source, for every source
\* size, 0 included.
C12_CopyIsIdentical ==
  last.op = "copy" =>
    /\ last.err = "none"
    /\ size(Cur) = size(last.pre)
    /\ Content(Cur) = Content(last.pre)

(***************************************************************************)
(* More claims about the blob handle, checked under SpecFile.              *)
(***************************************************************************)
\* C13: resize(n) followed by resize(n) leaves the size, the chunk id list and
\* the byte content that the first resize(n) left, in every handle state and
\* for every n >= 0.
C13_ResizeIdempotent ==
  /\ (last.op = "resize" /\ last.prevop = "resize" /\ last.prevarg = last.arg) =>
       /\ last.err = "none"
       /\ file.sequence = last.pre.f.sequence
       /\ Content(Cur) = Content(last.pre)
  /\ \A n \in 0..MaxSize :
       LET once == resize(Cur, n)
           twice == resize(once, n)
       IN /\ twice.f.sequence = once.f.sequence
          /\ Content(twice) = Content(once)

C13_Witness ==
  /\ last.op = "resize" /\ last.prevop = "resize" /\ last.prevarg = last.arg
  /\ file.position >= file.sequence.size
  /\ file.sequence.size = CHUNK_SIZE
  /\ Len(file.sequence.chunks) = 2

(***************************************************************************)
(* More claims about the document store, checked under SpecDoc.            *)
(***************************************************************************)
\* The value set_object stores for the committed document.
CommittedValue ==
  [dlast.val EXCEPT !.objuuid = StrVal(<<dlast.objuuid>>),
                    !.coluuid = StrVal(<<dlast.coluuid>>)]

\* C14: when a commit of an object returns, the object's index entries are
\* exactly one entry (A, str(value at path_A)) for each attribute A declared
\* for the collection of the committed handle whose path can be extracted from
\* the committed value; the value is stored whether or not an extraction failed.
C14_IndexRecomputed ==
  Committed =>
    /\ tables.objects[dlast.objuuid].value = CommittedValue
    /\ {r \in tables.index : r.objuuid = dlast.objuuid} =
         {[objuuid |-> dlast.objuuid, coluuid |-> dlast.coluuid,
           attribute |-> a.attribute,
           value |-> Str(read_key_at_path(a.path, CommittedValue).val)] :
            a \in {x \in list_attributes(tables, dlast.coluuid) :
                     read_key_at_path(x.path, CommittedValue).ok}}

C14_Witness ==
  /\ Committed
  /\ \E a \in list_attributes(tables, dlast.coluuid) :
       /\ ~read_key_at_path(a.path, CommittedValue).ok
       /\ \E r \in dlast.pre.index : r.objuuid = dlast.objuuid /\ r.attribute = a.attribute
       /\ ~\E r \in tables.index : r.objuuid = dlast.objuuid /\ r.attribute = a.attribute
  /\ \E r \in tables.index : r.objuuid = dlast.objuuid

\* C15: delete_collection(c) removes c's row, every object of c, every
\* attribute declaration of c and every index entry of those objects and
\* declarations; the objects, declarations and index entries of the other
\* collections stay as they were.
C15_DeleteCollectionCascades ==
  dlast.op = "delete_collection" =>
    LET c == dlast.coluuid
        pre == dlast.pre
        gone == {o \in DOMAIN pre.objects : pre.objects[o].coluuid = c}
    IN /\ dlast.err = "none"
       /\ tables.collections = pre.collections \ {c}
       /\ \A o \in DOMAIN tables.objects : tables.objects[o].coluuid # c
       /\ \A a \in tables.attributes : a.coluuid # c
       /\ \A r \in tables.index : r.coluuid # c /\ r.objuuid \notin gone
       /\ \A o \in (DOMAIN pre.objects) \ gone :
            o \in DOMAIN tables.objects /\ tables.objects[o] = pre.objects[o]
       /\ \A a \in pre.attributes : a.coluuid # c => a \in tables.attributes
       /\ \A r \in pre.index : (r.coluuid # c /\ r.objuuid \notin gone) => r \in tables.index

C15_Witness ==
  /\ dlast.op = "delete_collection"
  /\ \E r \in dlast.pre.index :
       /\ r.coluuid = dlast.coluuid
       /\ dlast.pre.objects[r.objuuid].coluuid = dlast.coluuid
       /\ r.objuuid \notin DOMAIN tables.objects
  /\ \E a \in dlast.pre.attributes : a.coluuid = dlast.coluuid
  /\ \E o \in DOMAIN tables.objects : tables.objects[o].coluuid # dlast.coluuid
  /\ \E a \in tables.attributes : a.coluuid # dlast.coluuid

\* C16: every index entry refers to an object that exists and to an attribute
\* that is declared for the collection owning that object; a destroy leaves no
\* index entry of the object and a delete_attribute none of the attribute in
\* the collection.
C16_NoOrphanIndexRows ==
  /\ \A r \in tables.index :
       /\ r.objuuid \in DOMAIN tables.objects
       /\ \E a \in tables.attributes :
            /\ a.coluuid = tables.objects[r.objuuid].coluuid
            /\ a.attribute = r.attribute
  /\ dlast.op = "destroy" =>
       /\ dlast.objuuid \notin DOMAIN tables.objects
       /\ \A r \in tables.index : r.objuuid # dlast.objuuid
  /\ dlast.op = "delete_attribute" =>
       \A r \in tables.index : ~(r.coluuid = dlast.coluuid /\ r.attribute = dlast.attribute)

\* C19: the value of every stored object holds the object's own id under
\* objuuid and, under coluuid, the id of the collection that owns its row.
C19_SelfDescribing ==
  \A o \in DOMAIN tables.objects :
    /\ tables.objects[o].value.objuuid = StrVal(<<o>>)
    /\ tables.objects[o].value.coluuid = StrVal(<<tables.objects[o].coluuid>>)

\* The path create_attribute was called with: that of the declaration it made.
DeclaredPath ==
  (CHOOSE a \in tables.attributes :
     a.coluuid = dlast.coluuid /\ a.attribute = dlast.attribute).path

\* C17: when create_attribute(C, A, P) returns, every object that was in C and
\* has an extractable value at P has the index entry (o, A) = str(that value)
\* and the equality query on A finds it; an object of C without an extractable
\* value at P has no entry for A in C, and the call returns nevertheless.
C17_Backfill ==
  (dlast.op = "create_attribute" /\ dlast.err = "none") =>
    \A o \in DOMAIN dlast.pre.objects :
      dlast.pre.objects[o].coluuid = dlast.coluuid =>
        LET v == read_key_at_path(DeclaredPath, dlast.pre.objects[o].value)
        IN IF v.ok
           THEN /\ [objuuid |-> o, coluuid |-> dlast.coluuid,
                    attribute |-> dlast.attribute, value |-> Str(v.val)] \in tables.index
                /\ FoundEq(tables, dlast.coluuid, dlast.attribute, Str(v.val), o)
           ELSE ~\E r \in tables.index :
                   r.objuuid = o /\ r.attribute = dlast.attribute
                     /\ r.coluuid = dlast.coluuid

C17_Witness ==
  /\ dlast.op = "create_attribute" /\ dlast.err = "none"
  /\ \E o \in DOMAIN dlast.pre.objects :
       /\ dlast.pre.objects[o].coluuid = dlast.coluuid
       /\ read_key_at_path(DeclaredPath, dlast.pre.objects[o].value).ok
       /\ \E r \in tables.index : r.objuuid = o /\ r.attribute = dlast.attribute
  /\ \E o \in DOMAIN dlast.pre.objects :
       /\ dlast.pre.objects[o].coluuid = dlast.coluuid
       /\ ~read_key_at_path(DeclaredPath, dlast.pre.objects[o].value).ok

\* C18 (as stated): opening an id that has no object creates and stores the
\* object with the value {objuuid: id, coluuid: collection}; opening an id that
\* has an object gives the handle the stored value and changes nothing in the
\* store; neither raises.
C18_GetOrCreateAlways ==
  dlast.op = "open" =>
    /\ dlast.err = "none"
    /\ dlast.objuuid \in DOMAIN tables.objects
    /\ IF dlast.objuuid \in DOMAIN dlast.pre.objects
       THEN /\ dlast.val = dlast.pre.objects[dlast.objuuid].value
            /\ tables = dlast.pre
       ELSE /\ dlast.val = NewValue(dlast.coluuid, dlast.objuuid)
            /\ tables.objects[dlast.objuuid] =
                 [coluuid |-> dlast.coluuid,
                  value |-> NewValue(dlast.coluuid, dlast.objuuid)]

\* C18 (amended): the same, the creation for a collection that exists.
C18_GetOrCreate ==
  dlast.op = "open" =>
    IF dlast.objuuid \in DOMAIN dlast.pre.objects
    THEN /\ dlast.err = "none"
         /\ dlast.val = dlast.pre.objects[dlast.objuuid].value
         /\ tables = dlast.pre
    ELSE dlast.coluuid \in dlast.pre.collections =>
           /\ dlast.err = "none"
           /\ dlast.val = NewValue(dlast.coluuid, dlast.objuuid)
           /\ tables = [dlast.pre EXCEPT !.objects =
                          Put(dlast.pre.objects, dlast.objuuid,
                              [coluuid |-> dlast.coluuid,
                               value |-> NewValue(dlast.coluuid, dlast.objuuid)])]

C18_Witness ==
  /\ dlast.op = "open" /\ dlast.err = "none"
  /\ dlast.objuuid \in DOMAIN dlast.pre.objects
  /\ dlast.val = dlast.pre.objects[dlast.objuuid].value
  /\ dlast.val.k # Absent
  /\ \E o \in DOMAIN tables.objects :
       o # dlast.objuuid /\ tables.objects[o].value = NewValue(tables.objects[o].coluuid, o)

(***************************************************************************)
(* More claims about find_objuuids, checked under SpecQuery.               *)
(***************************************************************************)
\* The clauses of the last query, positional ones first, as [attribute, expression].
AskedClauses == UnpackParams(dlast.params).queries \o dlast.kwparams

\* The result of the query that asks the i-th clause alone.
SingleResult(i) ==
  IF i <= Len(dlast.params)
  THEN find_objuuids(tables.index, dlast.coluuid, <<dlast.params[i]>>, <<>>).result
  ELSE find_objuuids(tables.index, dlast.coluuid, <<>>,
                     <<dlast.kwparams[i - Len(dlast.params)]>>).result

C21_PatternsAreLiteral ==
  (OneClause /\ ~Asked.negation
     /\ Asked.operator \in {"CONTAINS", "STARTSWITH", "ENDSWITH"}) =>
    /\ dlast.err = "none"
    /\ dlast.result =
         {r.objuuid : r \in {x \in AskedRows :
            CASE Asked.operator = "CONTAINS" -> IsSubstring(Asked.subject, x.value)
              [] Asked.operator = "STARTSWITH" -> StartsWith(x.value, Asked.subject)
              [] OTHER -> EndsWith(x.value, Asked.subject)}}

(***************************************************************************)
(* SpecOwn: the blob handle with File.delete among its calls.              *)
(***************************************************************************)
\* The destroying loop of delete_sequence: get_object(chunkid).destroy() for
\* the first k ids of chunks.
RECURSIVE DestroyChunks(_, _, _)
DestroyChunks(d, chunks, k) ==
  IF k = 0 THEN d
  ELSE Destroy(LoadStore(DestroyChunks(d, chunks, k - 1), chunks[k]), chunks[k])

\* delete_sequence(datastore, sequuid): the sequence is loaded from the store.
delete_sequence(d, sequuid) ==
  LET d0 == LoadStore(d, sequuid)
      chunks == IF d0[sequuid].type = "sequence" THEN d0[sequuid].chunks ELSE <<>>
  IN Destroy(DestroyChunks(d0, chunks, Len(chunks)), sequuid)

\* File.delete
delete(W) == [W EXCEPT !.docs = delete_sequence(W.docs, W.f.sequence.objuuid)]

DoDelete ==
  /\ steps < MaxSteps
  /\ Step(delete(Cur), "delete", 0, <<>>)

OwnNext ==
  DoSeek \/ DoRead \/ DoReadAll \/ DoWrite \/ DoResize \/ DoTruncate \/ DoClose \/ DoDelete

SpecOwn == FileInit /\ [][OwnNext]_vars

\* C22: after a resize the documents of the chunks it removed are gone, and
\* after delete no chunk document is left in the store (every chunk in it was
\* allocated to the handle's sequence).
C22_NoChunkLeak ==
  /\ (last.op = "resize" /\ last.err = "none") =>
       \A i \in 1..Len(last.pre.f.sequence.chunks) :
         i > Len(file.sequence.chunks) => last.pre.f.sequence.chunks[i] \notin DOMAIN docs
  /\ last.op = "delete" =>
       \A id \in DOMAIN docs : docs[id].type # "chunk"

(***************************************************************************)
(* SpecFlush: seek, read and write on one handle.  last.arg carries the    *)
(* bytes the handle holds at each position: the blob as it was opened,     *)
(* overlaid with every byte a write stored, at the position it stored it.  *)
(***************************************************************************)
MaxFlush == 4

\* The position of the first byte write(buffer) stores (datastore.py:251-263):
\* one past the cursor when the following-write branch is taken.
Landing(W, n) ==
  IF W.f.following_write /\ n > 0 /\ W.f.sequence.size < W.f.position + n + 1
  THEN W.f.position + 1
  ELSE W.f.position

\* held overlaid with buffer from position start on, zero where the blob grew.
Overlay(held, start, buffer) ==
  [q \in 1..Max(Len(held), start + Len(buffer)) |->
     IF q > start /\ q <= start + Len(buffer) THEN buffer[q - start]
     ELSE IF q <= Len(held) THEN held[q] ELSE 0]

FlInit ==
  /\ NoStore
  /\ \E s \in 0..MaxSize :
       /\ LET W == BlobOf(s) IN docs = W.docs /\ nextId = W.nextId /\ file = W.f
       /\ last = [NoCall EXCEPT !.arg = Payload(0, s)]
  /\ steps = 0

FlSeek ==
  /\ steps < MaxFlush
  /\ \E p \in -1..MaxSize : Step(seek(Cur, p), "seek", last.arg, <<>>)

FlRead ==
  /\ steps < MaxFlush
  /\ \E n \in 0..MaxLen :
       LET r == read(Cur, n) IN Step(r.w, "read", last.arg, r.buffer)

FlReadAll ==
  /\ steps < MaxFlush
  /\ LET r == read_all(Cur) IN Step(r.w, "read_all", last.arg, r.buffer)

FlWrite ==
  /\ steps < MaxFlush
  /\ \E n \in 0..MaxLen :
       /\ file.position + n + 1 <= MaxSize
       /\ Step(write(Cur, Payload(steps + 1, n)), "write",
               Overlay(last.arg, Landing(Cur, n), Payload(steps + 1, n)), <<>>)

FlNext == FlSeek \/ FlRead \/ FlReadAll \/ FlWrite

SpecFlush == FlInit /\ [][FlNext]_vars

C24_CursorInRange ==
  0 <= file.position /\ file.position < file.sequence.size

(***************************************************************************)
(* What a commit leaves visible, checked under SpecDoc.                    *)
(***************************************************************************)
\* The tables as another connection can read them while set_object runs:
\* list_attributes commits the update and the delete (document.py:499), and
\* the get_object of each round of the loop commits the inserts of the rounds
\* before it (document.py:161).
CommitPoints(db, coluuid, objuuid, updated_object, order) ==
  {set_object(db, coluuid, objuuid, updated_object, SubSeq(order, 1, i)).db :
     i \in 0..Max(0, Len(order) - 1)}

\* The index entries a value yields under the declarations of the collection.
Yield(db, coluuid, objuuid, value) ==
  {[objuuid |-> objuuid, coluuid |-> coluuid, attribute |-> a.attribute,
    value |-> Str(read_key_at_path(a.path, value).val)] :
     a \in {x \in list_attributes(db, coluuid) : read_key_at_path(x.path, value).ok}}

\* The committed tables hold the value with entries other than those it yields.
HalfIndexed(db, coluuid, objuuid, value) ==
  /\ objuuid \in DOMAIN db.objects
  /\ db.objects[objuuid].value = value
  /\ {r \in db.index : r.objuuid = objuuid} # Yield(db, coluuid, objuuid, value)

\* C25: neither the tables a commit leaves behind, returned or failed, nor the
\* tables another connection can read while it runs hold the object's new
\* value with only some of the index entries the value yields.
C25_NeverHalfIndexed ==
  dlast.op = "commit" =>
    /\ ~HalfIndexed(tables, dlast.coluuid, dlast.objuuid, CommittedValue)
    /\ \A order \in Orders(list_attributes(dlast.pre, dlast.coluuid)) :
         \A S \in CommitPoints(dlast.pre, dlast.coluuid, dlast.objuuid, dlast.val, order) :
           ~HalfIndexed(S, dlast.coluuid, dlast.objuuid, CommittedValue)

(***************************************************************************)
(* SpecTwo: two File instances opened on the same stored sequence, their   *)
(* calls interleaved.  file holds both instances; last names the instance  *)
(* of the most recent call and, per instance, whether it has closed since  *)
(* its last write or resize.                                               *)
(***************************************************************************)
MaxTwo == 3
Instances == {"a", "b"}
Other(h) == IF h = "a" THEN "b" ELSE "a"

TwoInit ==
  /\ NoStore
  /\ \E s \in 0..MaxSize :
       LET A == BlobOf(s)
           B == FileOpen(A.docs, A.nextId, A.f.sequence.objuuid)
       IN /\ docs = B.docs
          /\ nextId = B.nextId
          /\ file = [a |-> A.f, b |-> B.f]
  /\ last = [op |-> "init", h |-> "a", err |-> "none", closed |-> [a |-> TRUE, b |-> TRUE]]
  /\ steps = 0

\* The call of instance h left the world W.
TwoStep(h, W, op, closed) ==
  /\ docs' = W.docs
  /\ nextId' = W.nextId
  /\ file' = [file EXCEPT ![h] = W.f]
  /\ last' = [op |-> op, h |-> h, err |-> W.err, closed |-> [last.closed EXCEPT ![h] = closed]]
  /\ steps' = steps + 1
  /\ UNCHANGED <<tables, handles, dlast, cache, callers>>

TwoWrite ==
  /\ steps < MaxTwo
  /\ \E h \in Instances : \E n \in 1..MaxLen :
       /\ file[h].position + n + 1 <= MaxSize
       /\ TwoStep(h, write(World(docs, nextId, file[h]), Payload(steps + 1, n)),
                  "write", FALSE)

TwoResize ==
  /\ steps < MaxTwo
  /\ \E h \in Instances : \E n \in 0..MaxSize :
       TwoStep(h, resize(World(docs, nextId, file[h]), n), "resize", FALSE)

TwoClose ==
  /\ steps < MaxTwo
  /\ \E h \in Instances : TwoStep(h, close(World(docs, nextId, file[h])), "close", TRUE)

TwoNext == TwoWrite \/ TwoResize \/ TwoClose

SpecTwo == TwoInit /\ [][TwoNext]_vars

\* The stored sequence of the two instances.
StoredSequence == docs[file.a.sequence.objuuid]

\* The stored chunk list omits a chunk that is in the store, or names one that
\* is not, or the stored size disagrees with the number of chunks.
Corrupt ==
  \/ \E id \in DOMAIN docs :
       /\ docs[id].type = "chunk"
       /\ \A i \in 1..Len(StoredSequence.chunks) : StoredSequence.chunks[i] # id
  \/ \E i \in 1..Len(StoredSequence.chunks) : StoredSequence.chunks[i] \notin DOMAIN docs
  \/ Len(StoredSequence.chunks) # (StoredSequence.size \div CHUNK_SIZE) + 1

\* C26: two instances on one sequence are not isolated.  When an instance
\* closes after the other one has closed, and the other one holds a chunk of
\* the store that the closing one does not know, the stored sequence is
\* corrupt: the close of the second overwrites the chunk list the first stored.
C26_StaleCloseCorrupts ==
  (/\ last.op = "close"
   /\ last.closed[Other(last.h)]
   /\ \E i \in 1..Len(file[Other(last.h)].sequence.chunks) :
        /\ file[Other(last.h)].sequence.chunks[i] \in DOMAIN docs
        /\ \A j \in 1..Len(file[last.h].sequence.chunks) :
             file[Other(last.h)].sequence.chunks[i] # file[last.h].sequence.chunks[j])
    => Corrupt

\* Both instances have closed, the one that closed first had written into a
\* chunk it added, and the stored sequence is shorter than what it stored.
C26_Witness ==
  /\ last.op = "close"
  /\ last.closed[Other(last.h)]
  /\ Corrupt
  /\ StoredSequence.size < file[Other(last.h)].sequence.size
  /\ \E i \in 1..Len(file[Other(last.h)].sequence.chunks) :
       LET id == file[Other(last.h)].sequence.chunks[i]
       IN /\ \A j \in 1..Len(file[last.h].sequence.chunks) :
               file[last.h].sequence.chunks[j] # id
          /\ id \in DOMAIN docs
          /\ \E q \in 1..CHUNK_SIZE : docs[id].data[q] > 10

(***************************************************************************)
(* SpecLock: the advisory locks (controller/inventory.py:30-44,            *)
(* controller/messaging.py:8-19) over the cache (dao/cache.py).  A stored  *)
(* value is "None" (the key was never set), "False" or "True".  Every read *)
(* and every write of the cache is one step.                               *)
(***************************************************************************)
NumCallers == 2
Callers == 1..NumCallers
Keys == {"inventory lock", "message lock"}

\* Where a caller is:
\*   idle     outside lock() and unlock(), not holding
\*   waiting  in the loop of lock(), before CLIENT.get (or asleep after it)
\*   default  in get(), CLIENT.get returned None, before CLIENT.set(key, default)
\*   set      the loop was left, before set(key, True)
\*   held     lock() returned, unlock() not yet called: inside the try block
\*   failed   lock() raised: in the finally block, before unlock(), not holding
\*   stopped  the caller stopped while it held the lock
\* last is the most recent return of a caller: who, on which key, and how its
\* try block was left.
At(at, key) == [at |-> at, key |-> key]

\* Mutant: a wait that gives up, and takes the lock, on a flag that is set.
Poll_timeout(value) ==
  IF value = "None" THEN "default" ELSE "set"

\* One pass of `while get(key, default=False) is True: sleep(1)` up to the
\* read of the cache: where the caller goes next.
Poll(value) ==
  IF value = "True" THEN "waiting"
  ELSE IF value = "None" THEN "default" ELSE "set"

\* The state after start-up: init_collections has called unlock_inventory()
\* (main.py:45); nothing sets the message lock before its first use.
LockInit ==
  /\ docs = <<>> /\ nextId = 0 /\ file = <<>>
  /\ last = [c |-> 0, key |-> "", how |-> "none"]
  /\ tables = <<>> /\ handles = {} /\ dlast = <<>>
  /\ steps = 0
  /\ cache = [k \in Keys |-> IF k = "inventory lock" THEN "False" ELSE "None"]
  /\ callers = [c \in Callers |-> At("idle", "inventory lock")]

LockFrame == UNCHANGED <<docs, nextId, file, last, steps, tables, handles, dlast>>

\* A caller enters lock().
LockCall ==
  \E c \in Callers : \E k \in Keys :
    /\ callers[c].at = "idle"
    /\ callers' = [callers EXCEPT ![c] = At("waiting", k)]
    /\ UNCHANGED cache /\ LockFrame

\* value = CLIENT.get(key) in get(), and the test of the loop.
LockGet ==
  \E c \in Callers :
    /\ callers[c].at = "waiting"
    /\ callers' = [callers EXCEPT ![c].at = Poll(cache[callers[c].key])]
    /\ UNCHANGED cache /\ LockFrame

\* CLIENT.set(key, pickle.dumps(default)); return default: the loop is left.
LockDefault ==
  \E c \in Callers :
    /\ callers[c].at = "default"
    /\ cache' = [cache EXCEPT ![callers[c].key] = "False"]
    /\ callers' = [callers EXCEPT ![c].at = "set"]
    /\ LockFrame

\* set(key, True); lock() returns.
LockSet ==
  \E c \in Callers :
    /\ callers[c].at = "set"
    /\ cache' = [cache EXCEPT ![callers[c].key] = "True"]
    /\ callers' = [callers EXCEPT ![c].at = "held"]
    /\ LockFrame

\* lock() raises: an exception of the cache client in get or set, or an
\* interrupt in sleep.  The caller's finally block is next.
LockRaise ==
  \E c \in Callers :
    /\ callers[c].at \in {"waiting", "default", "set"}
    /\ callers' = [callers EXCEPT ![c].at = "failed"]
    /\ UNCHANGED cache /\ LockFrame

\* How a try block that begins with lock() is left:
\*   completed    the body ran to its end (or to its return statement)
\*   refused      an assert of the body failed; except AssertionError logs it
\*   raised       another exception left the body; it goes on to the caller
\*   lock raised  lock() itself raised
\* add_message has no asserts: it is never refused.
Outcomes(c) ==
  IF callers[c].at = "failed" THEN {"lock raised"}
  ELSE IF callers[c].key = "message lock" THEN {"completed", "raised"}
       ELSE {"completed", "refused", "raised"}

\* Mutant: unlock() as the last statement of the try block, not in finally.
Unlock_in_try ==
  \E c \in Callers : \E how \in Outcomes(c) :
    /\ callers[c].at \in {"held", "failed"}
    /\ cache' = IF how \in {"completed", "refused"}
               THEN [cache EXCEPT ![callers[c].key] = "False"] ELSE cache
    /\ callers' = [callers EXCEPT ![c].at = "idle"]
    /\ last' = [c |-> c, key |-> callers[c].key, how |-> how]
    /\ UNCHANGED <<docs, nextId, file, steps, tables, handles, dlast>>

\* The try block is left in one of its ways and the finally block runs
\* unlock(): set(key, False); the call returns (or the exception goes on).
Unlock ==
  \E c \in Callers : \E how \in Outcomes(c) :
    /\ callers[c].at \in {"held", "failed"}
    /\ cache' = [cache EXCEPT ![callers[c].key] = "False"]
    /\ callers' = [callers EXCEPT ![c].at = "idle"]
    /\ last' = [c |-> c, key |-> callers[c].key, how |-> how]
    /\ UNCHANGED <<docs, nextId, file, steps, tables, handles, dlast>>

\* The holder stops without calling unlock().
Stop ==
  \E c \in Callers :
    /\ callers[c].at = "held"
    /\ callers' = [callers EXCEPT ![c].at = "stopped"]
    /\ UNCHANGED cache /\ LockFrame

\* The service is started again: init_collections calls unlock_inventory().
Restart ==
  /\ cache["inventory lock"] # "False"
  /\ cache' = [cache EXCEPT !["inventory lock"] = "False"]
  /\ UNCHANGED callers /\ LockFrame

LockNext ==
  LockCall \/ LockGet \/ LockDefault \/ LockSet \/ LockRaise \/ Unlock \/ Stop \/ Restart

SpecLock == LockInit /\ [][LockNext]_vars

\* C27: no two callers are at the same time between their return from lock()
\* and their call of unlock() on the same lock.
C27_MutualExclusion ==
  \A c1 \in Callers : \A c2 \in Callers :
    (c1 # c2 /\ callers[c1].key = callers[c2].key) =>
      ~(callers[c1].at = "held" /\ callers[c2].at = "held")

\* C28: while the inventory lock's flag is true it stays true unless a caller
\* runs unlock() or the service is started again, and a caller waiting in
\* lock() on a true flag never has lock() return: a holder that stopped is
\* never replaced by a timeout or an expiry.
C28_HeldUntilUnlock ==
  [][ /\ (cache["inventory lock"] = "True" /\ cache'["inventory lock"] # "True") =>
           \/ callers' = callers
           \/ \E c \in Callers : /\ callers[c].key = "inventory lock"
                                 /\ callers[c].at \in {"held", "failed"}
                                 /\ callers'[c] = At("idle", "inventory lock")
      /\ \A c \in Callers :
           (/\ callers[c] = At("waiting", "inventory lock")
            /\ cache["inventory lock"] = "True"
            /\ cache'["inventory lock"] = "True") =>
             (callers'[c] = callers[c] \/ callers'[c].at = "failed")
    ]_vars

\* A holder of the inventory lock has stopped, the flag is true and another
\* caller is waiting in lock().
C28_Witness ==
  /\ cache["inventory lock"] = "True"
  /\ \E c \in Callers : callers[c] = At("stopped", "inventory lock")
  /\ \E c \in Callers : callers[c] = At("waiting", "inventory lock")

\* C29: in every state of the handle the chunk it reads and writes is the one
\* the chunk list names at index floor(position / CHUNK_SIZE), and the offset
\* in the chunk is position mod CHUNK_SIZE.
C29_ChunkMatchesCursor ==
  LET i == file.position \div CHUNK_SIZE
  IN /\ i + 1 <= Len(file.sequence.chunks)
     /\ file.chunk.objuuid = file.sequence.chunks[i + 1]
     /\ file.chunk_position = file.position % CHUNK_SIZE

\* C30: in every state of the handle the chunk list has floor(size /
\* CHUNK_SIZE) + 1 ids, every position below size falls on an id of the list
\* whose chunk is in the store, and a seek to a position in range returns.
C30_EveryPositionHasChunk ==
  /\ Len(file.sequence.chunks) = (file.sequence.size \div CHUNK_SIZE) + 1
  /\ \A p \in 0..(file.sequence.size - 1) :
       /\ (p \div CHUNK_SIZE) + 1 \in 1..Len(file.sequence.chunks)
       /\ file.sequence.chunks[(p \div CHUNK_SIZE) + 1] \in DOMAIN docs
       /\ docs[file.sequence.chunks[(p \div CHUNK_SIZE) + 1]].type = "chunk"
  /\ (last.op = "seek" /\ 0 <= last.arg /\ last.arg < last.pre.f.sequence.size) =>
       /\ last.err = "none"
       /\ file.position = last.arg
       /\ file.chunk_index = last.arg \div CHUNK_SIZE

\* A seek to the last position of a blob that a resize has just grown, into a
\* chunk other than the one the handle was on.
C30_Witness ==
  /\ last.op = "seek" /\ last.prevop = "resize"
  /\ last.err = "none"
  /\ last.arg = file.sequence.size - 1
  /\ file.chunk_index # last.pre.f.chunk_index
  /\ file.chunk_index > 0

(***************************************************************************)
(* A seek that raises.                                                     *)
(***************************************************************************)
\* C31: a seek that raises IndexError leaves every attribute of the handle
\* (cursor, chunk index, in-chunk offset, loaded chunk, dirty flag, at-end flag,
\* following-write flag, sequence) and the store as they were before the call.
C31_FailedSeekChangesNothing ==
  (last.op = "seek" /\ last.err = "IndexError") =>
    /\ last.arg < 0 \/ last.arg >= last.pre.f.sequence.size
    /\ file = last.pre.f
    /\ docs = last.pre.docs
    /\ nextId = last.pre.nextId

\* A seek past the end raised on a handle whose chunk was dirty and whose
\* following-write flag was set.
C31_Witness ==
  /\ last.op = "seek" /\ last.err = "IndexError"
  /\ last.arg >= last.pre.f.sequence.size
  /\ last.pre.f.chunk_changed
  /\ last.pre.f.following_write

(***************************************************************************)
(* Two writes in a row inside a blob that is already large enough.         *)
(***************************************************************************)
\* C32: two non-empty writes B1 then B2 with no call between them, where the
\* second leaves the size as it was (then the first did not grow the blob
\* either): wherever B1 lies in the blob before the second write, B1 is still
\* there after it and B2 lies in the positions right after B1's last byte.
C32_WritesContiguousInside ==
  (/\ last.op = "write" /\ last.prevop = "write"
   /\ last.err = "none"
   /\ Len(last.arg) > 0 /\ Len(last.prevarg) > 0
   /\ size(Cur) = size(last.pre)) =>
    LET B1 == last.prevarg
        B2 == last.arg
        before == Content(last.pre)
        after == Content(Cur)
    IN \A q \in Len(B1)..Len(before) :
         (\A i \in 1..Len(B1) : before[q - Len(B1) + i] = B1[i]) =>
           /\ \A i \in 1..Len(B1) : after[q - Len(B1) + i] = B1[i]
           /\ \A i \in 1..Len(B2) : q + i <= Len(after) /\ after[q + i] = B2[i]

(***************************************************************************)
(* Shrinking and growing again.                                            *)
(***************************************************************************)
\* C33: after resize(m) directly followed by resize(n) with n > m, every
\* position in [m, n) of the blob holds 0.
C33_GrowthReadsZero ==
  (last.op = "resize" /\ last.prevop = "resize" /\ last.arg > last.prevarg) =>
    \A q \in last.prevarg..(last.arg - 1) : Content(Cur)[q + 1] = 0

(***************************************************************************)
(* copy_file statement by statement.  file holds both handles; last.op is  *)
(* the statement that ran last and last.chunk what the last read returned. *)
(* The source is a handle on a stored blob after up to two calls on it, so *)
(* that its cursor, its flags and its loaded chunk are in any state a      *)
(* caller can hand over.                                                   *)
(***************************************************************************)
\* The destination may never grow past the source by more than this: one
\* byte for the read at an empty source and one for the slack of a
\* following write.
MaxOut == MaxSize + 2

PrepCalls ==
  {[op |-> "none", n |-> 0], [op |-> "read_all", n |-> 0]}
    \cup {[op |-> o, n |-> k] : o \in {"seek", "resize"}, k \in 0..MaxSize}
    \cup {[op |-> o, n |-> k] : o \in {"read", "write"}, k \in 0..MaxLen}

\* The world after the call c on the handle of W.
Prepared(W, c) ==
  CASE c.op = "seek" -> seek(W, c.n)
    [] c.op = "read" -> read(W, c.n).w
    [] c.op = "read_all" -> read_all(W).w
    [] c.op = "write" -> write(W, Payload(9, c.n))
    [] c.op = "resize" -> resize(W, c.n)
    [] OTHER -> W

RunInit ==
  /\ NoStore
  /\ \E s \in 0..MaxSize : \E c1 \in PrepCalls : \E c2 \in PrepCalls :
       LET W == Prepared(Prepared(BlobOf(s), c1), c2)
           O == FileNew(W.docs, W.nextId)
       IN /\ W.err = "none"
          /\ size(W) <= MaxSize
          /\ docs = O.docs
          /\ nextId = O.nextId
          /\ file = [inp |-> W.f, out |-> O.f]
  /\ last = [op |-> "init", chunk |-> <<>>, err |-> "none"]
  /\ steps = 0

\* The statement left the store as in W, the handle h as W.f.
RunStep(h, W, op, chunk) ==
  /\ docs' = W.docs
  /\ nextId' = W.nextId
  /\ file' = [file EXCEPT ![h] = W.f]
  /\ last' = [op |-> op, chunk |-> chunk, err |-> W.err]
  /\ steps' = steps + 1
  /\ UNCHANGED <<tables, handles, dlast, cache, callers>>

\* chunk = inp_f.read(CHUNK_SIZE): the first statement, and the one in the
\* loop while the chunk written last was not empty.
RunRead ==
  /\ last.err = "none"
  /\ last.op = "init" \/ (last.op = "write" /\ Len(last.chunk) > 0)
  /\ \E r \in {read(World(docs, nextId, file.inp), CHUNK_SIZE)} :
       RunStep("inp", r.w, "read", r.buffer)

\* out_f.write(chunk) is the statement to run next.
AtWrite ==
  /\ last.err = "none"
  /\ last.op = "read"
  /\ file.out.sequence.size <= MaxOut

RunWrite ==
  /\ AtWrite
  /\ RunStep("out", write(World(docs, nextId, file.out), last.chunk), "write", last.chunk)

\* out_f.close(); inp_f.close() once the loop is left.
RunClose ==
  /\ last.err = "none"
  /\ last.op = "write" /\ Len(last.chunk) = 0
  /\ LET o == close(World(docs, nextId, file.out))
     IN RunStep("inp", close(World(o.docs, o.nextId, file.inp)), "closed", <<>>)

RunNext == RunRead \/ RunWrite \/ RunClose

\* copy_file is one sequential call: a statement that can run does run.  The
\* last conjunct is WF_vars(RunWrite) written out: RunWrite always changes
\* steps, so it is enabled exactly when AtWrite holds.
SpecRun ==
  /\ RunInit /\ [][RunNext]_vars
  /\ WF_vars(RunRead) /\ WF_vars(RunClose)
  /\ ([]<>(~AtWrite) \/ []<><<RunWrite>>_vars)

\* What close() stores of the handle f is in the store.
Closed(f) ==
  /\ f.sequence.objuuid \in DOMAIN docs
  /\ docs[f.sequence.objuuid] = SequenceDoc(f.sequence.chunks, f.sequence.size)
  /\ f.chunk.objuuid \in DOMAIN docs => docs[f.chunk.objuuid] = ChunkDoc(f.chunk.data)

\* C34: every run of copy_file, whatever the size of the source and the state
\* of its cursor, comes to a read that returns nothing, leaves the loop and
\* closes both handles.
C34_CopyTerminates ==
  <>(/\ last.op = "closed" /\ last.err = "none"
     /\ Closed(file.inp) /\ Closed(file.out))

\* A copy ended of a source of more than two chunks whose cursor had been
\* moved: the loop ran several times.
C34_Witness ==
  /\ last.op = "closed"
  /\ file.inp.sequence.size > 2 * CHUNK_SIZE
  /\ file.out.sequence.size > CHUNK_SIZE
  /\ file.out.sequence.size < file.inp.sequence.size

(***************************************************************************)
(* More claims about the locks, checked under SpecLock.                    *)
(***************************************************************************)
\* C35: a caller that is inside its try block after lock() returned and then
\* leaves it, whether the body completed, was refused by an assert or raised,
\* has run unlock() when it returns: the flag is false in the state it
\* returns in.
C35_AlwaysReleased ==
  [][ \A c \in Callers :
        (callers[c].at = "held" /\ callers'[c].at \notin {"held", "stopped"}) =>
          /\ callers'[c].at = "idle"
          /\ last'.c = c /\ last'.how \in {"completed", "refused", "raised"}
          /\ cache'[callers[c].key] = "False"
    ]_vars

\* A caller whose body raised has returned with the flag of its lock false.
C35_Witness ==
  /\ last.how = "raised"
  /\ callers[last.c].at = "idle"
  /\ cache[last.key] = "False"

\* A step in which unlock() is run on key by a caller that does not hold it:
\* the finally block of a caller whose lock() raised, or the unlock at
\* start-up (which moves no caller).
UnlockByOther(key) ==
  \/ \E c \in Callers : callers[c] = At("failed", key) /\ callers'[c].at = "idle"
  \/ key = "inventory lock" /\ callers' = callers /\ cache' # cache

\* C36: an unlock() by a caller that does not hold the lock leaves the flag
\* as it is while another caller is inside its critical section.
C36_OnlyHolderReleases ==
  [][ \A k \in Keys :
        (/\ UnlockByOther(k)
         /\ \E d \in Callers : callers[d] = At("held", k) /\ callers'[d] = callers[d]) =>
          cache'[k] = cache[k]
    ]_vars

(***************************************************************************)
(* SpecBoard: add_message (controller/messaging.py:21-36) under the        *)
(* message lock.  The cache also holds the key "messages"; handles is the  *)
(* set of board keys that have been set, file the local variable messages  *)
(* of each caller, steps the number of messages handed out, and dlast the  *)
(* messages of the calls that returned after their write, newest first.    *)
(* A message is the number of the call that adds it.                       *)
(* Further places of a caller:                                             *)
(*   empty    in get("messages", []), CLIENT.get returned None             *)
(*   read     messages has been read, before set("messages", ...)          *)
(*   wrote    set("messages", ...) is done, before the finally block       *)
(***************************************************************************)
\* The length the list is cut to (messaging.py:33 keeps 49 and adds one).
BoardSize == 2
MaxMessages == 3

BoardInit ==
  /\ docs = <<>> /\ nextId = 0 /\ tables = <<>>
  /\ last = [c |-> 0, key |-> "", how |-> "none"]
  /\ dlast = <<>>
  /\ steps = 0
  /\ handles = {}
  /\ file = [c \in Callers |-> <<>>]
  /\ cache = [k \in Keys \cup {"messages"} |->
                IF k = "messages" THEN <<>> ELSE IF k = "message lock" THEN "None" ELSE "False"]
  /\ callers = [c \in Callers |-> At("idle", "message lock")]

\* messages = cache.get("messages", []) up to the read of the cache.
BoardGet ==
  \E c \in Callers :
    /\ callers[c] = At("held", "message lock")
    /\ steps < MaxMessages
    /\ callers' = [callers EXCEPT ![c].at = IF "messages" \in handles THEN "read" ELSE "empty"]
    /\ file' = [file EXCEPT ![c] = cache["messages"]]
    /\ UNCHANGED <<cache, docs, nextId, last, steps, tables, handles, dlast>>

\* The key was never set: CLIENT.set("messages", pickle.dumps([])); return [].
BoardDefault ==
  \E c \in Callers :
    /\ callers[c] = At("empty", "message lock")
    /\ cache' = [cache EXCEPT !["messages"] = <<>>]
    /\ handles' = handles \cup {"messages"}
    /\ file' = [file EXCEPT ![c] = <<>>]
    /\ callers' = [callers EXCEPT ![c].at = "read"]
    /\ UNCHANGED <<docs, nextId, last, steps, tables, dlast>>

\* messages = [message] + messages[:49]; cache.set("messages", messages)
BoardSet ==
  \E c \in Callers :
    /\ callers[c] = At("read", "message lock")
    /\ LET messages == <<steps + 1>> \o SubSeq(file[c], 1, Min(Len(file[c]), BoardSize - 1))
       IN /\ cache' = [cache EXCEPT !["messages"] = messages]
          /\ file' = [file EXCEPT ![c] = messages]
    /\ handles' = handles \cup {"messages"}
    /\ steps' = steps + 1
    /\ callers' = [callers EXCEPT ![c].at = "wrote"]
    /\ UNCHANGED <<docs, nextId, last, tables, dlast>>

\* finally: unlock(); add_message returns.
BoardUnlock ==
  \E c \in Callers :
    /\ callers[c] = At("wrote", "message lock")
    /\ cache' = [cache EXCEPT !["message lock"] = "False"]
    /\ callers' = [callers EXCEPT ![c].at = "idle"]
    /\ last' = [c |-> c, key |-> "message lock", how |-> "completed"]
    /\ dlast' = <<Head(file[c])>> \o dlast
    /\ UNCHANGED <<docs, nextId, file, steps, tables, handles>>

BoardNext ==
  \/ LockCall \/ LockGet \/ LockDefault \/ LockSet \/ LockRaise \/ Unlock
  \/ BoardGet \/ BoardDefault \/ BoardSet \/ BoardUnlock

SpecBoard == BoardInit /\ [][BoardNext]_vars

\* C37: the stored list never has more than BoardSize entries, and when no
\* call is under way it is the messages of the most recent
\* min(BoardSize, number of completed calls) completed calls, newest first.
C37_BoardLosesNoAdd ==
  /\ Len(cache["messages"]) <= BoardSize
  /\ (\A c \in Callers : callers[c].at = "idle") =>
       cache["messages"] = SubSeq(dlast, 1, Min(BoardSize, Len(dlast)))

(***************************************************************************)
(* SpecTree: the inventory tree of controller/inventory.py, one request    *)
(* after the other (lock and unlock frame every call and cancel out when   *)
(* no second caller runs).  tables is the inventory collection, object id  *)
(* -> stored object; docs and nextId are the datastore collection; handles *)
(* is the set of ids get_uuid_str has handed out.                          *)
(*                                                                         *)
(* A stored object is [keys, parent, type, children, sequuid]: keys names  *)
(* the dictionary keys it has, the other fields are their values ("name"   *)
(* and "context" are always set together with "type" and stand with it).   *)
(* Ids are strings: "#" is the root marker, "ghost" an id no object has.   *)
(***************************************************************************)
MaxTree == 3

CONFIG_OBJUUID == "cfg"
TASK_PROTO_OBJUUID == "tpl"
SETTINGS_CONTAINER_OBJUUID == "set"

FIXED_OBJUUIDS == {CONFIG_OBJUUID, TASK_PROTO_OBJUUID, SETTINGS_CONTAINER_OBJUUID}

\* Document.create_object: a row that holds the two ids and nothing else.
NoObject == [keys |-> {}, parent |-> "", type |-> "", children |-> {}, sequuid |-> 0]

InvObject(type, parent, children) ==
  [keys |-> {"type", "parent", "children"}, parent |-> parent, type |-> type,
   children |-> children, sequuid |-> 0]

\* A tree world: [inv, docs, nextId, made, err]; err is "none", "refused"
\* (an AssertionError, logged, the call returns) or the exception raised.
TreeWorld(inv, d, n, made) ==
  [inv |-> inv, docs |-> d, nextId |-> n, made |-> made, err |-> "none"]

\* get_uuid_str(): an id never handed out before.
NewId(T) == "n" \o ToString(Cardinality(T.made) + 1)

\* Collection.get_object(objuuid): get-or-create.
GetInv(inv, objuuid) ==
  IF objuuid \in DOMAIN inv THEN inv ELSE Put(inv, objuuid, NoObject)

\* inventory.find_objuuids(parent=p): the objects indexed under parent p.
find_parent(inv, p) ==
  {x \in DOMAIN inv : "parent" \in inv[x].keys /\ inv[x].parent = p}

\* parent = get_object(p); parent.object["children"] = find_objuuids(parent=p);
\* parent.set()
RefreshChildren(inv, p) ==
  LET i == GetInv(inv, p)
  IN [i EXCEPT ![p].children = find_parent(i, p),
               ![p].keys = @ \cup {"children"}]

\* __get_child_tree_nodes below current with `depth` frames left: the ids of
\* the nodes, or RecursionError when the frames run out.  An object without
\* "parent", "name" or "type" raises KeyError, which is caught: it and what
\* is below it are left out.
RECURSIVE ChildTree(_, _, _)
ChildTree(inv, current, depth) ==
  IF depth = 0 THEN [ids |-> {}, err |-> "RecursionError"]
  ELSE IF ~({"parent", "type"} \subseteq inv[current].keys)
  THEN [ids |-> {}, err |-> "none"]
  ELSE LET subs == {ChildTree(inv, c, depth - 1) : c \in find_parent(inv, current)}
       IN [ids |-> {current} \cup UNION {s.ids : s \in subs},
           err |-> IF \E s \in subs : s.err # "none"
                   THEN "RecursionError" ELSE "none"]

\* The interpreter's recursion limit, far above any tree of this size: only a
\* walk that never ends reaches it.
Frames(inv) == Cardinality(DOMAIN inv) + 1

get_child_tree_nodes(inv, objuuid) ==
  LET subs == {ChildTree(inv, c, Frames(inv)) : c \in find_parent(inv, objuuid)}
  IN [ids |-> UNION {s.ids : s \in subs},
      err |-> IF \E s \in subs : s.err # "none" THEN "RecursionError" ELSE "none"]

no_fixed_objects(inv, objuuid) ==
  LET nodes == get_child_tree_nodes(inv, objuuid)
  IN [ok |-> nodes.ids \cap FIXED_OBJUUIDS = {}, err |-> nodes.err]

\* set_parent_objuuid(objuuid, parent_objuuid)
set_parent_objuuid(T, objuuid, parent_objuuid) ==
  IF objuuid \in FIXED_OBJUUIDS \/ parent_objuuid \in FIXED_OBJUUIDS
  THEN Raise(T, "refused")
  ELSE LET i0 == GetInv(T.inv, objuuid)
       IN IF ~({"type", "parent"} \subseteq i0[objuuid].keys)
          THEN [T EXCEPT !.inv = i0, !.err = "KeyError"]
          ELSE IF objuuid = parent_objuuid THEN T
          ELSE LET old_parent_objuuid == i0[objuuid].parent
                   i1 == [i0 EXCEPT ![objuuid].parent = parent_objuuid]
                   i2 == IF old_parent_objuuid # "#"
                         THEN RefreshChildren(i1, old_parent_objuuid) ELSE i1
                   i3 == IF parent_objuuid # "#"
                         THEN RefreshChildren(i2, parent_objuuid) ELSE i2
               IN [T EXCEPT !.inv = i3]

\* One round of a deleting loop of delete_node: the blob of a binary file is
\* deleted, then the object is destroyed.
DestroyNode(T, id) ==
  The({ [T EXCEPT !.inv = Destroy(i0, id),
                  !.docs = IF {"type", "sequuid"} \subseteq i0[id].keys
                              /\ i0[id].type = "binary file"
                           THEN delete_sequence(T.docs, i0[id].sequuid)
                           ELSE T.docs]
      : i0 \in {GetInv(T.inv, id)} })

RECURSIVE DestroyNodes(_, _)
DestroyNodes(T, ids) ==
  IF ids = {} THEN T
  ELSE The({ The({ DestroyNodes(T1, ids \ {id}) : T1 \in {DestroyNode(T, id)} })
           : id \in {CHOOSE x \in ids : TRUE} })

\* delete_node(objuuid)
delete_node(T, objuuid) ==
  IF objuuid \in FIXED_OBJUUIDS THEN Raise(T, "refused")
  ELSE LET nf == no_fixed_objects(T.inv, objuuid)
           i0 == GetInv(T.inv, objuuid)
       IN IF nf.err # "none" THEN Raise(T, nf.err)
          ELSE IF ~nf.ok THEN Raise(T, "refused")
          ELSE IF "parent" \notin i0[objuuid].keys
          THEN [T EXCEPT !.inv = i0, !.err = "KeyError"]
          ELSE LET parent_objuuid == i0[objuuid].parent
                   nodes == get_child_tree_nodes(i0, objuuid)
                   T2 == DestroyNode(DestroyNodes(T, nodes.ids), objuuid)
               IN [T2 EXCEPT !.inv = IF parent_objuuid # "#"
                                     THEN RefreshChildren(T2.inv, parent_objuuid)
                                     ELSE T2.inv]

\* create_container(parent_objuuid, name)
create_container(T, parent_objuuid) ==
  LET id == NewId(T)
      i1 == Put(T.inv, id, InvObject("container", parent_objuuid, {}))
  IN [T EXCEPT !.inv = IF parent_objuuid = "#" THEN i1
                       ELSE RefreshChildren(i1, parent_objuuid),
               !.made = @ \cup {id}]

\* create_binary_file(parent_objuuid, name): File() makes the blob.
create_binary_file(T, parent_objuuid) ==
  LET id == NewId(T)
      F == FileNew(T.docs, T.nextId)
      i1 == Put(T.inv, id,
                [keys |-> {"type", "parent", "children", "sequuid"},
                 parent |-> parent_objuuid, type |-> "binary file",
                 children |-> {}, sequuid |-> F.f.sequence.objuuid])
  IN [T EXCEPT !.inv = IF parent_objuuid = "#" THEN i1
                       ELSE RefreshChildren(i1, parent_objuuid),
               !.docs = F.docs, !.nextId = F.nextId,
               !.made = @ \cup {id}]

\* The cloning both copy_object and __copy_object do for one object: a new
\* object takes the fields of the current one under parent_objuuid, and the
\* parent's children are refreshed, whatever the parent is.  For a binary
\* file the blob is copied and out_file.sequuid, the method and not its
\* result, is stored in the clone: clone.set() cannot pickle the File behind
\* it (the handle holds database connections) and raises TypeError, with the
\* clone's row still empty.
CloneObject(T, objuuid, parent_objuuid) ==
  LET id == NewId(T)
      cur == T.inv[objuuid]
      i0 == Put(T.inv, id, NoObject)
  IN IF cur.type = "binary file"
     THEN The({ [T EXCEPT !.inv = i0, !.docs = C.docs, !.nextId = C.nextId,
                          !.made = @ \cup {id},
                          !.err = IF C.err # "none" THEN C.err ELSE "TypeError"]
              : C \in { The({ The({ copy_file(out.docs, out.nextId, src.f, out.f)
                                  : out \in {FileNew(src.docs, src.nextId)} })
                            : src \in {FileOpen(T.docs, T.nextId, cur.sequuid)} }) } })
     ELSE [T EXCEPT !.inv = RefreshChildren(
                                Put(i0, id, [cur EXCEPT !.children = {},
                                                        !.parent = parent_objuuid]),
                                parent_objuuid),
                    !.made = @ \cup {id}]

\* __copy_object(objuuid, parent_objuuid, ...) and the loop over the children
\* that calls it; find_objuuids gives the children in no stated order, so the
\* outcome is a set of worlds.
RECURSIVE CopyObject(_, _, _), CopyChildren(_, _, _)
CopyChildren(T, child_objuuids, parent_objuuid) ==
  IF child_objuuids = {} \/ T.err # "none" THEN {T}
  ELSE UNION { UNION { CopyChildren(T1, child_objuuids \ {c}, parent_objuuid)
                     : T1 \in CopyObject(T, c, parent_objuuid) }
             : c \in child_objuuids }

CopyObject(T, objuuid, parent_objuuid) ==
  LET i0 == GetInv(T.inv, objuuid)
  IN IF ~({"parent", "type"} \subseteq i0[objuuid].keys)
     THEN {[T EXCEPT !.inv = Destroy(i0, objuuid)]}
     ELSE UNION { CopyChildren(T1, find_parent(T.inv, objuuid), NewId(T))
                : T1 \in {CloneObject(T, objuuid, parent_objuuid)} }

\* copy_object(objuuid): the set of worlds it can leave.
copy_object(T, objuuid) ==
  IF objuuid \in FIXED_OBJUUIDS THEN {Raise(T, "refused")}
  ELSE LET nf == no_fixed_objects(T.inv, objuuid)
           i0 == GetInv(T.inv, objuuid)
       IN IF nf.err # "none" THEN {Raise(T, nf.err)}
          ELSE IF ~nf.ok THEN {Raise(T, "refused")}
          ELSE IF ~({"type", "parent"} \subseteq i0[objuuid].keys)
          THEN {[T EXCEPT !.inv = i0, !.err = "KeyError"]}
          ELSE UNION { CopyChildren(T1, find_parent(T.inv, objuuid), NewId(T))
                     : T1 \in {CloneObject(T, objuuid, i0[objuuid].parent)} }

\* init_collections on an empty database: the Root container, then the
\* configuration, the task template and the settings container.
InitInventory ==
  [x \in {"n1"} \cup FIXED_OBJUUIDS |->
     CASE x = CONFIG_OBJUUID -> InvObject("config", SETTINGS_CONTAINER_OBJUUID, {})
       [] x = TASK_PROTO_OBJUUID -> InvObject("task", SETTINGS_CONTAINER_OBJUUID, {})
       [] x = SETTINGS_CONTAINER_OBJUUID ->
            InvObject("container", "#", {TASK_PROTO_OBJUUID, SETTINGS_CONTAINER_OBJUUID})
       [] OTHER -> InvObject("container", "#", {})]

TreeInit ==
  /\ tables = InitInventory /\ handles = {"n1"}
  /\ docs = <<>> /\ nextId = 1
  /\ steps = 0
  /\ last = [op |-> "init", objuuid |-> "", parent |-> "", err |-> "none",
             pre |-> [inv |-> InitInventory, docs |-> <<>>]]
  /\ file = <<>> /\ dlast = <<>> /\ NoLock

TreeCur == TreeWorld(tables, docs, nextId, handles)

\* The ids a request can name: the routes pass any form string on.
Uuids == DOMAIN tables \cup {"#", "ghost"}

TreeStep(T, op, objuuid, parent_objuuid) ==
  /\ tables' = T.inv /\ docs' = T.docs /\ nextId' = T.nextId /\ handles' = T.made
  /\ steps' = steps + 1
  /\ last' = [op |-> op, objuuid |-> objuuid, parent |-> parent_objuuid,
              err |-> T.err, pre |-> [inv |-> tables, docs |-> docs]]
  /\ UNCHANGED <<file, dlast, cache, callers>>

TreeCreateContainer ==
  /\ steps < MaxTree
  /\ \E p \in Uuids : TreeStep(create_container(TreeCur, p), "create", NewId(TreeCur), p)

TreeCreateFile ==
  /\ steps < MaxTree
  /\ \E p \in Uuids : TreeStep(create_binary_file(TreeCur, p), "create", NewId(TreeCur), p)

TreeMove ==
  /\ steps < MaxTree
  /\ \E o \in Uuids, p \in Uuids :
       TreeStep(set_parent_objuuid(TreeCur, o, p), "set_parent", o, p)

TreeCopy ==
  /\ steps < MaxTree
  /\ \E o \in Uuids : \E T \in copy_object(TreeCur, o) : TreeStep(T, "copy", o, "")

TreeDelete ==
  /\ steps < MaxTree
  /\ \E o \in Uuids : TreeStep(delete_node(TreeCur, o), "delete", o, "")

TreeNext == TreeCreateContainer \/ TreeCreateFile \/ TreeMove \/ TreeCopy \/ TreeDelete

SpecTree == TreeInit /\ [][TreeNext]_vars

\* x reaches a by at most k parent links.
RECURSIVE ReachesUp(_, _, _, _)
ReachesUp(inv, x, a, k) ==
  /\ k > 0
  /\ x \in DOMAIN inv
  /\ "parent" \in inv[x].keys
  /\ \/ inv[x].parent = a
     \/ ReachesUp(inv, inv[x].parent, a, k - 1)

\* The descendants of a: the objects whose parent links lead to a.
Descendants(inv, a) ==
  {x \in DOMAIN inv : ReachesUp(inv, x, a, Cardinality(DOMAIN inv))}

\* The ids of the sequence sequuid and of its chunks in the store d.
BlobIds(d, sequuid) ==
  {sequuid} \cup
    (IF sequuid \in DOMAIN d /\ d[sequuid].type = "sequence"
     THEN {d[sequuid].chunks[i] : i \in 1..Len(d[sequuid].chunks)} ELSE {})

\* What delete_node leaves, with `parents` the rows that count as a parent
\* object.
DeleteSpares(parents) ==
  /\ \A f \in {CONFIG_OBJUUID, TASK_PROTO_OBJUUID, SETTINGS_CONTAINER_OBJUUID} :
       f \in DOMAIN tables
  /\ last.op = "delete" =>
       LET pre == last.pre.inv
           gone == {last.objuuid} \cup Descendants(pre, last.objuuid)
           parent_objuuid == pre[last.objuuid].parent
       IN IF gone \cap {CONFIG_OBJUUID, TASK_PROTO_OBJUUID,
                        SETTINGS_CONTAINER_OBJUUID} # {}
          THEN /\ \A x \in DOMAIN pre : x \in DOMAIN tables /\ tables[x] = pre[x]
               /\ \A b \in DOMAIN last.pre.docs :
                    b \in DOMAIN docs /\ docs[b] = last.pre.docs[b]
          ELSE last.err = "none" =>
               /\ gone \cap DOMAIN tables = {}
               /\ \A x \in gone \cap DOMAIN pre :
                    pre[x].type = "binary file" =>
                      BlobIds(last.pre.docs, pre[x].sequuid) \cap DOMAIN docs = {}
               /\ parent_objuuid \in parents =>
                    last.objuuid \notin tables[parent_objuuid].children

\* C38: delete_node never destroys a fixed object.  If the given object or
\* one of its descendants has a fixed id, every object and every blob of
\* before the call is still there, unchanged; otherwise, when the call
\* returns, the object and its descendants are gone from the inventory, the
\* sequence and the chunks of every binary file among them are gone from the
\* datastore, and the children of the parent object do not list the object.
C38_DeleteSparesFixed == DeleteSpares(DOMAIN tables)

\* The same with the row copy_object makes for the root marker not counted
\* as a parent object: this much holds.
C38_ExceptRootMarker == DeleteSpares(DOMAIN tables \ {"#"})

\* A root-level object is deleted and the row "#" still lists it.
C38_StaleRootRow ==
  /\ last.op = "delete" /\ last.err = "none"
  /\ last.pre.inv[last.objuuid].parent = "#"
  /\ "#" \in DOMAIN tables
  /\ last.objuuid \notin DOMAIN tables
  /\ last.objuuid \in tables["#"].children

\* A container with a binary file below it is deleted.
C38_SubtreeDeleted ==
  /\ last.op = "delete" /\ last.err = "none"
  /\ \E x \in Descendants(last.pre.inv, last.objuuid) :
       /\ last.pre.inv[x].type = "binary file"
       /\ last.pre.inv[x].sequuid \in DOMAIN last.pre.docs
       /\ last.pre.inv[x].sequuid \notin DOMAIN docs
  /\ last.pre.inv[last.objuuid].parent # "#"
  /\ last.pre.inv[last.objuuid].parent \in DOMAIN tables

\* C39: the inventory stays a forest.  Following parent links from any
\* inventory object reaches the root marker "#" within as many steps as there
\* are objects, and after set_parent_objuuid the moved object is not among
\* its own ancestors.
C39_InventoryIsForest ==
  /\ \A x \in DOMAIN tables : ReachesUp(tables, x, "#", Cardinality(DOMAIN tables))
  /\ last.op = "set_parent" =>
       ~ReachesUp(tables, last.objuuid, last.objuuid, Cardinality(DOMAIN tables))

\* set_parent_objuuid has put an object below one of its own descendants:
\* the parent links from it come back to it and never reach "#".
C39_CycleMade ==
  /\ last.op = "set_parent" /\ last.err = "none"
  /\ last.parent \in Descendants(last.pre.inv, last.objuuid)
  /\ ReachesUp(tables, last.objuuid, last.objuuid, Cardinality(DOMAIN tables))
  /\ ~ReachesUp(tables, last.objuuid, "#", Cardinality(DOMAIN tables))

====
